---------------------------- MODULE Spec2Model ----------------------------
(***************************************************************************)
(* Baseline Command Center: the feature-detection core as it is coded in   *)
(* the CLI (cli/src/analyzer.ts, cli/src/reporter.ts), the webpack, vite   *)
(* and rollup plugins and the editor dashboard.                            *)
(*                                                                         *)
(* Source text is a TLA+ string, scanned character by character by a       *)
(* small backtracking matcher for the regular expressions the code uses;   *)
(* the catalogs are the tables of the source; the score is computed in     *)
(* IEEE-754 double arithmetic as JavaScript computes it.                   *)
(***************************************************************************)
EXTENDS Integers, Sequences, FiniteSets, Bags, TLC

(***************************************************************************)
(* JavaScript numbers.  Math.round((b / total) * 100) is evaluated on      *)
(* doubles: the quotient is rounded to 53 bits, the product is rounded to  *)
(* 53 bits, and Math.round takes the nearest integer, ties upward.  A      *)
(* double is held as three limbs of its 53-bit significand (13 + 20 + 20   *)
(* bits) and the exponent of its last bit:                                 *)
(*     value = (hi * 2^40 + mid * 2^20 + lo) * 2^exp.                      *)
(* The limb arithmetic is exact for operands below 2^11, which covers      *)
(* every count the model reaches.                                          *)
(***************************************************************************)
RECURSIVE Pow2(_)
Pow2(n) == IF n = 0 THEN 1 ELSE 2 * Pow2(n - 1)

RECURSIVE BitLen(_)
BitLen(n) == IF n = 0 THEN 0 ELSE 1 + BitLen(n \div 2)

RECURSIVE LeadingShift(_, _)
LeadingShift(r, t) == IF 2 * r >= t THEN 1 ELSE 1 + LeadingShift(2 * r, t)

Limb == Pow2(20)
HiMin == Pow2(12)

\* Next double above d (round-to-nearest took the upper neighbour).
F64RoundUp(d) ==
  IF d.lo + 1 < Limb THEN [d EXCEPT !.lo = d.lo + 1]
  ELSE IF d.mid + 1 < Limb THEN [d EXCEPT !.lo = 0, !.mid = d.mid + 1]
  ELSE IF d.hi + 1 < 2 * HiMin THEN [d EXCEPT !.lo = 0, !.mid = 0, !.hi = d.hi + 1]
  ELSE [hi |-> HiMin, mid |-> 0, lo |-> 0, exp |-> d.exp + 1]

\* b / t for integers 0 < b <= t, rounded to nearest, ties to even.
F64Div(b, t) ==
  IF b = t THEN [hi |-> HiMin, mid |-> 0, lo |-> 0, exp |-> -52]
  ELSE LET k  == LeadingShift(b, t)
           d1 == b * Pow2(k - 1) * (2 * HiMin)
           d2 == (d1 % t) * Limb
           d3 == (d2 % t) * Limb
           q  == [hi |-> d1 \div t, mid |-> d2 \div t, lo |-> d3 \div t,
                  exp |-> -(k + 52)]
           r  == d3 % t
       IN IF 2 * r > t \/ (2 * r = t /\ q.lo % 2 = 1) THEN F64RoundUp(q) ELSE q

\* d * c for a small positive integer c, rounded to nearest, ties to even.
F64MulInt(d, c) ==
  LET p3 == d.lo * c
      p2 == d.mid * c + p3 \div Limb
      p1 == d.hi * c + p2 \div Limb
      extra == BitLen(p1) - 13
      E == Pow2(extra)
      q == [hi  |-> p1 \div E,
            mid |-> (p1 % E) * (Limb \div E) + (p2 % Limb) \div E,
            lo  |-> ((p2 % Limb) % E) * (Limb \div E) + (p3 % Limb) \div E,
            exp |-> d.exp + extra]
      dropped == (p3 % Limb) % E
  IN IF 2 * dropped > E \/ (2 * dropped = E /\ extra > 0 /\ q.lo % 2 = 1)
     THEN F64RoundUp(q) ELSE q

\* Math.round of a positive double below 2^12: floor(d + 1/2), exactly.
MathRound(d) ==
  LET s == -d.exp - 40
  IN IF s > 14 THEN 0
     ELSE IF s = 14 THEN d.hi \div HiMin
     ELSE (d.hi \div Pow2(s)) + ((d.hi \div Pow2(s - 1)) % 2)

\* Math.round((part / total) * 100) for 0 <= part <= total, total > 0.
JsPercent(part, total) ==
  IF part = 0 THEN 0 ELSE MathRound(F64MulInt(F64Div(part, total), 100))

\* A variant of Score in which limited usages earn credit in the numerator.
ScoreLimitedCredit(baseline, limited, nonBaseline) ==
  LET total == baseline + limited + nonBaseline
  IN IF total > 0 THEN JsPercent(baseline + limited, total) ELSE 100

\* total > 0 ? Math.round((baseline / total) * 100) : 100
Score(baseline, limited, nonBaseline) ==
  LET total == baseline + limited + nonBaseline
  IN IF total > 0 THEN JsPercent(baseline, total) ELSE 100

\* The spec's score: round-half-up of the exact quotient 100 * b / total.
RoundHalfUp(num, den) == (2 * num + den) \div (2 * den)

ExactScore(baseline, limited, nonBaseline) ==
  LET total == baseline + limited + nonBaseline
  IN IF total = 0 THEN 100 ELSE RoundHalfUp(100 * baseline, total)

(***************************************************************************)
(* Regular expressions.  A pattern is a sequence of elements:              *)
(*   [t |-> "b"]                         \b                                *)
(*   [t |-> "lit", s |-> str]            the literal str                   *)
(*   [t |-> "alt", alts |-> seq, g |-> n] (a|b|c) as capture group n       *)
(*   [t |-> "rep", cls |-> c, min |-> m, g |-> n]                          *)
(*        a greedy repetition of class c, at least m long, captured as     *)
(*        group n (0: not captured)                                        *)
(* Matching backtracks as the JavaScript engine does: alternatives in      *)
(* order, repetitions from the longest to the shortest.                    *)
(***************************************************************************)
Letters ==
  {"a","b","c","d","e","f","g","h","i","j","k","l","m","n","o","p","q","r",
   "s","t","u","v","w","x","y","z","A","B","C","D","E","F","G","H","I","J",
   "K","L","M","N","O","P","Q","R","S","T","U","V","W","X","Y","Z"}
Digits == {"0","1","2","3","4","5","6","7","8","9"}
WordChars == Letters \cup Digits \cup {"_"}
SpaceChars == {" ", "\t", "\n", "\r", "\f"}

CharAt(text, i) == IF i >= 1 /\ i <= Len(text) THEN SubSeq(text, i, i) ELSE ""

InClass(cls, c) ==
  CASE cls = "word"       -> c \in WordChars
    [] cls = "word-"      -> c \in WordChars \cup {"-"}
    [] cls = "word."      -> c \in WordChars \cup {"."}
    [] cls = "space"      -> c \in SpaceChars
    [] cls = "notsemi"    -> c # "" /\ c # ";"

\* \b holds between positions p-1 and p.
IsBoundary(text, p) ==
  (CharAt(text, p - 1) \in WordChars) # (CharAt(text, p) \in WordChars)

StartsWithAt(text, p, lit) ==
  /\ p + Len(lit) - 1 <= Len(text)
  /\ SubSeq(text, p, p + Len(lit) - 1) = lit

SetMin(S) == CHOOSE m \in S : \A o \in S : m <= o
SetMax(S) == CHOOSE m \in S : \A o \in S : m >= o

\* Length of the longest run of class cls that starts at p.
RunLength(text, p, cls) ==
  LET stops == {i \in p..Len(text) : ~InClass(cls, CharAt(text, i))}
  IN IF stops = {} THEN Len(text) + 1 - p ELSE SetMin(stops) - p

NoMatch == [ok |-> FALSE]

\* Match elements k.. of re at position p; caps holds the groups set so far.
RECURSIVE MatchHere(_, _, _, _, _)
MatchHere(re, k, text, p, caps) ==
  IF k > Len(re) THEN [ok |-> TRUE, end |-> p, caps |-> caps]
  ELSE LET el == re[k] IN
    CASE el.t = "b" ->
           IF IsBoundary(text, p) THEN MatchHere(re, k + 1, text, p, caps)
           ELSE NoMatch
      [] el.t = "lit" ->
           IF StartsWithAt(text, p, el.s)
           THEN MatchHere(re, k + 1, text, p + Len(el.s), caps)
           ELSE NoMatch
      [] el.t = "alt" ->
           LET try(i) == IF StartsWithAt(text, p, el.alts[i])
                         THEN MatchHere(re, k + 1, text, p + Len(el.alts[i]),
                                        (el.g :> el.alts[i]) @@ caps)
                         ELSE NoMatch
               good == {i \in 1..Len(el.alts) : try(i).ok}
           IN IF good = {} THEN NoMatch ELSE try(SetMin(good))
      [] el.t = "rep" ->
           LET longest == RunLength(text, p, el.cls)
               try(n) == MatchHere(re, k + 1, text, p + n,
                                   IF el.g = 0 THEN caps
                                   ELSE (el.g :> SubSeq(text, p, p + n - 1)) @@ caps)
               good == {n \in el.min..longest : try(n).ok}
           IN IF good = {} THEN NoMatch ELSE try(SetMax(good))

\* RegExp.prototype.exec with the g flag: the leftmost match at or after
\* lastIndex (1-based here), or NoMatch.
Exec(re, text, lastIndex) ==
  LET starts == {s \in lastIndex..Len(text) : MatchHere(re, 1, text, s, <<>>).ok}
  IN IF starts = {} THEN NoMatch
     ELSE LET s == SetMin(starts)
              m == MatchHere(re, 1, text, s, <<>>)
          IN [ok |-> TRUE, index |-> s, end |-> m.end, caps |-> m.caps,
              all |-> SubSeq(text, s, m.end - 1)]

\* while ((match = regex.exec(text)) !== null): every match, in order.
RECURSIVE ExecAll(_, _, _)
ExecAll(re, text, lastIndex) ==
  LET m == Exec(re, text, lastIndex)
  IN IF ~m.ok THEN <<>> ELSE <<m>> \o ExecAll(re, text, m.end)

\* match[n], or "" when group n did not take part (undefined is falsy as "" is).
Group(m, n) == IF n \in DOMAIN m.caps THEN m.caps[n] ELSE ""

\* document.positionAt(offset).line: the newlines before the offset.
LineOf(text, index) == Cardinality({i \in 1..(index - 1) : CharAt(text, i) = "\n"})

(***************************************************************************)
(* The patterns of the source.                                             *)
(***************************************************************************)
WordBoundary == [t |-> "b"]
Lit(str) == [t |-> "lit", s |-> str]
Alt(alts) == [t |-> "alt", alts |-> alts, g |-> 1]
Rep(cls, min, g) == [t |-> "rep", cls |-> cls, min |-> min, g |-> g]

\* /([\w-]+)\s*:\s*([^;]+);/g   (the same literal in all five integrations)
propertyRegex ==
  <<Rep("word-", 1, 1), Rep("space", 0, 0), Lit(":"), Rep("space", 0, 0),
    Rep("notsemi", 1, 2), Lit(";")>>

asyncFunctionRegex == <<WordBoundary, Lit("async"), Rep("space", 1, 0), Lit("function")>>
awaitRegex == <<WordBoundary, Lit("await"), Rep("space", 1, 0)>>

\* ProjectAnalyzer.analyzeJSFile: patterns
CliPatterns ==
  << <<WordBoundary, Alt(<<"fetch", "localStorage", "crypto">>), WordBoundary>>,
     <<WordBoundary,
       Alt(<<"IntersectionObserver", "ResizeObserver", "MutationObserver">>),
       WordBoundary>>,
     <<WordBoundary, Alt(<<"Promise">>), WordBoundary>>,
     asyncFunctionRegex,
     awaitRegex,
     <<Lit("navigator."), Alt(<<"share">>)>>,
     <<Lit("document."), Alt(<<"startViewTransition">>)>> >>

\* BaselineWebpackPlugin.analyzeJavaScript: patterns
WebpackPatterns ==
  << <<WordBoundary, Alt(<<"fetch", "IntersectionObserver", "Promise">>), WordBoundary>>,
     asyncFunctionRegex,
     <<Lit("document."), Alt(<<"startViewTransition">>)>> >>

\* analyzeJavaScript of the vite and rollup plugins: patterns
BundlerPatterns ==
  << <<WordBoundary,
       Alt(<<"fetch", "IntersectionObserver", "ResizeObserver", "Promise">>),
       WordBoundary>>,
     asyncFunctionRegex,
     <<Lit("navigator."), Alt(<<"share">>)>>,
     <<Lit("document."), Alt(<<"startViewTransition">>)>> >>

\* JSParser.extractAPIUsage: patterns, each with its type
ParserPatterns ==
  << [regex |-> <<Lit("new"), Rep("space", 1, 0), Rep("word.", 1, 1),
                  Rep("space", 0, 0), Lit("(")>>, type |-> "constructor"],
     [regex |-> <<WordBoundary,
                  Alt(<<"fetch", "localStorage", "sessionStorage", "crypto", "navigator">>),
                  WordBoundary>>, type |-> "global"],
     [regex |-> <<WordBoundary,
                  Alt(<<"IntersectionObserver", "ResizeObserver", "MutationObserver",
                        "PerformanceObserver">>),
                  WordBoundary>>, type |-> "observer"],
     [regex |-> asyncFunctionRegex, type |-> "async"],
     [regex |-> awaitRegex, type |-> "await"],
     [regex |-> <<WordBoundary, Lit("Promise"), WordBoundary>>, type |-> "promise"],
     [regex |-> <<WordBoundary, Alt(<<"WeakMap", "WeakSet", "Map", "Set">>), WordBoundary>>,
      type |-> "collection"],
     [regex |-> <<WordBoundary, Alt(<<"Proxy", "Reflect">>), WordBoundary>>, type |-> "meta"],
     [regex |-> <<WordBoundary,
                  Alt(<<"querySelector", "querySelectorAll", "getElementById">>),
                  WordBoundary>>, type |-> "dom"],
     [regex |-> <<WordBoundary,
                  Alt(<<"BroadcastChannel", "WebSocket", "Worker", "ServiceWorker">>),
                  WordBoundary>>, type |-> "web"],
     [regex |-> <<Lit("navigator."),
                  Alt(<<"share", "geolocation", "mediaDevices", "serviceWorker">>)>>,
      type |-> "navigator"],
     [regex |-> <<Lit("document."),
                  Alt(<<"startViewTransition", "requestStorageAccess">>)>>,
      type |-> "document"] >>

(***************************************************************************)
(* Strings and sequences.                                                  *)
(***************************************************************************)
RECURSIVE Concat(_)
Concat(seqs) == IF seqs = <<>> THEN <<>> ELSE Head(seqs) \o Concat(Tail(seqs))

\* String.prototype.includes
Includes(str, sub) ==
  \E i \in 1..(Len(str) - Len(sub) + 1) : SubSeq(str, i, i + Len(sub) - 1) = sub

\* String.prototype.trim
Trim(str) ==
  LET ink == {i \in 1..Len(str) : CharAt(str, i) \notin SpaceChars}
  IN IF ink = {} THEN "" ELSE SubSeq(str, SetMin(ink), SetMax(ink))

\* apiName.replace(/^new\s+/, '')
StripLeadingNew(str) ==
  LET gap == RunLength(str, 4, "space")
  IN IF StartsWithAt(str, 1, "new") /\ gap >= 1
     THEN SubSeq(str, 4 + gap, Len(str)) ELSE str

\* The number of entries of a sequence whose status is among the given ones.
CountStatus(seq, statuses) == Cardinality({i \in 1..Len(seq) : seq[i].status \in statuses})

\* parseInt(str): the decimal digits at the front of the trimmed string;
\* NaN (here -1, below every score) when there are none.
NaN == -1
RECURSIVE DigitsValue(_, _)
DigitsValue(str, acc) ==
  IF str = "" \/ CharAt(str, 1) \notin Digits THEN acc
  ELSE DigitsValue(Tail(str),
                   10 * acc + (CHOOSE d \in 0..9 : ToString(d) = CharAt(str, 1)))
parseInt(str) ==
  LET t == Trim(str)
  IN IF t = "" \/ CharAt(t, 1) \notin Digits THEN NaN ELSE DigitsValue(t, 0)

(***************************************************************************)
(* Catalogs.  The CLI and the three plugins keep theirs as an object       *)
(* literal, so a lookup obj[key] also finds what the key inherits from     *)
(* Object.prototype (a function, or for __proto__ the prototype itself):   *)
(* a truthy value that is neither 'baseline' nor 'limited'.  The editor    *)
(* keeps a Map, whose get finds own keys only.                             *)
(***************************************************************************)
ObjectPrototypeKeys ==
  {"constructor", "toString", "toLocaleString", "valueOf", "hasOwnProperty",
   "isPrototypeOf", "propertyIsEnumerable", "__proto__", "__defineGetter__",
   "__defineSetter__", "__lookupGetter__", "__lookupSetter__"}

Inherited == "[inherited]"
Undefined == ""

\* obj[key] on an object literal
\* A variant of ObjGet in which every absent key finds an inherited member.
ObjGetAlwaysFound(obj, key) ==
  IF key \in DOMAIN obj THEN obj[key] ELSE Inherited

ObjGet(obj, key) ==
  IF key \in DOMAIN obj THEN obj[key]
  ELSE IF key \in ObjectPrototypeKeys THEN Inherited
  ELSE Undefined

\* Map.prototype.get / set; a Map of feature records answers undefined with
\* a record that is no feature.
NoFeature == [id |-> Undefined, status |-> Undefined]
MapGet(map, key) == IF key \in DOMAIN map THEN map[key] ELSE NoFeature
\* A variant of MapSet in which a key that is present keeps its value.
MapSetIfAbsent(map, key, value) == map @@ (key :> value)
MapSet(map, key, value) == (key :> value) @@ map

\* if (status) / if (feature)
Truthy(v) == v # Undefined

\* ProjectAnalyzer.baselineData
CliBaselineData ==
  [css |-> "display" :> "baseline" @@ "flex" :> "baseline"
        @@ "flex-direction" :> "baseline" @@ "flex-wrap" :> "baseline"
        @@ "justify-content" :> "baseline" @@ "align-items" :> "baseline"
        @@ "gap" :> "baseline" @@ "grid" :> "baseline"
        @@ "grid-template-columns" :> "baseline"
        @@ "grid-template-rows" :> "baseline" @@ "position" :> "baseline"
        @@ "backdrop-filter" :> "baseline" @@ "transform" :> "baseline"
        @@ "container-type" :> "limited" @@ "container-name" :> "limited"
        @@ "container" :> "limited",
   js  |-> "fetch" :> "baseline" @@ "Promise" :> "baseline"
        @@ "async" :> "baseline" @@ "await" :> "baseline"
        @@ "IntersectionObserver" :> "baseline" @@ "ResizeObserver" :> "baseline"
        @@ "MutationObserver" :> "baseline" @@ "localStorage" :> "baseline"
        @@ "crypto" :> "baseline" @@ "BroadcastChannel" :> "baseline"
        @@ "navigator.share" :> "limited"
        @@ "document.startViewTransition" :> "limited"]

\* BaselineWebpackPlugin.baselineData
WebpackBaselineData ==
  [css |-> "display" :> "baseline" @@ "flex" :> "baseline" @@ "gap" :> "baseline"
        @@ "grid" :> "baseline" @@ "container-type" :> "limited"
        @@ "backdrop-filter" :> "baseline",
   js  |-> "fetch" :> "baseline" @@ "Promise" :> "baseline"
        @@ "IntersectionObserver" :> "baseline" @@ "async" :> "baseline"
        @@ "document.startViewTransition" :> "limited"]

\* baselineData of the vite plugin and, word for word, of the rollup plugin
BundlerBaselineData ==
  [css |-> "display" :> "baseline" @@ "flex" :> "baseline" @@ "gap" :> "baseline"
        @@ "grid" :> "baseline" @@ "container-type" :> "limited"
        @@ "backdrop-filter" :> "baseline" @@ "transform" :> "baseline",
   js  |-> "fetch" :> "baseline" @@ "Promise" :> "baseline"
        @@ "IntersectionObserver" :> "baseline" @@ "ResizeObserver" :> "baseline"
        @@ "async" :> "baseline" @@ "document.startViewTransition" :> "limited"
        @@ "navigator.share" :> "limited"]

\* BaselineDataProvider.createMockData: mockCSSFeatures
mockCSSFeatures ==
  << [id |-> "css-display", status |-> "baseline", properties |-> <<"display">>],
     [id |-> "css-gap", status |-> "baseline",
      properties |-> <<"gap", "row-gap", "column-gap">>],
     [id |-> "css-flexbox", status |-> "baseline",
      properties |-> <<"flex", "flex-direction", "flex-wrap", "justify-content",
                       "align-items", "align-content", "flex-grow", "flex-shrink",
                       "flex-basis">>],
     [id |-> "css-grid", status |-> "baseline",
      properties |-> <<"grid", "grid-template-columns", "grid-template-rows",
                       "grid-area", "grid-column", "grid-row">>],
     [id |-> "css-position-sticky", status |-> "baseline", properties |-> <<"position">>],
     [id |-> "css-container-queries", status |-> "limited",
      properties |-> <<"container-type", "container-name", "container">>],
     [id |-> "css-backdrop-filter", status |-> "baseline",
      properties |-> <<"backdrop-filter">>],
     [id |-> "css-color-oklch", status |-> "limited", properties |-> <<"color">>] >>

\* BaselineDataProvider.createMockData: mockJSFeatures
mockJSFeatures ==
  << [id |-> "fetch-api", status |-> "baseline", api |-> "fetch",
      methods |-> <<"fetch", "Response", "Request", "Headers">>],
     [id |-> "promises", status |-> "baseline", api |-> "Promise",
      methods |-> <<"then", "catch", "finally", "all", "race">>],
     [id |-> "async-await", status |-> "baseline", api |-> "async",
      methods |-> <<"async", "await">>],
     [id |-> "intersection-observer", status |-> "baseline",
      api |-> "IntersectionObserver",
      methods |-> <<"observe", "unobserve", "disconnect">>],
     [id |-> "resize-observer", status |-> "baseline", api |-> "ResizeObserver",
      methods |-> <<"observe", "unobserve", "disconnect">>],
     [id |-> "mutation-observer", status |-> "baseline", api |-> "MutationObserver",
      methods |-> <<"observe", "disconnect", "takeRecords">>],
     [id |-> "local-storage", status |-> "baseline", api |-> "localStorage",
      methods |-> <<"getItem", "setItem", "removeItem", "clear">>],
     [id |-> "web-crypto", status |-> "baseline", api |-> "crypto",
      methods |-> <<"subtle", "getRandomValues">>],
     [id |-> "broadcast-channel", status |-> "baseline", api |-> "BroadcastChannel",
      methods |-> <<"postMessage", "close">>],
     [id |-> "web-share-api", status |-> "limited", api |-> "navigator.share",
      methods |-> <<"share", "canShare">>],
     [id |-> "view-transitions", status |-> "limited",
      api |-> "document.startViewTransition",
      methods |-> <<"startViewTransition">>] >>

\* keys.forEach(key => map.set(key, feature))
RECURSIVE SetEach(_, _, _)
SetEach(map, keys, feature) ==
  IF keys = <<>> THEN map
  ELSE SetEach(MapSet(map, Head(keys), feature), Tail(keys), feature)

\* features.forEach(feature => keys(feature).forEach(key => map.set(key, feature)))
\* entries pairs each feature with the keys the loop sets for it.
RECURSIVE IndexFeatures(_, _)
IndexFeatures(map, entries) ==
  IF entries = <<>> THEN map
  ELSE IndexFeatures(SetEach(map, Head(entries).keys, Head(entries).feature),
                     Tail(entries))

\* BaselineDataProvider.createMockData, on the maps it is given
createMockData(maps) ==
  [cssFeatures |->
     IndexFeatures(maps.cssFeatures,
                   [i \in 1..Len(mockCSSFeatures) |->
                      [keys |-> mockCSSFeatures[i].properties,
                       feature |-> mockCSSFeatures[i]]]),
   jsFeatures |->
     IndexFeatures(maps.jsFeatures,
                   [i \in 1..Len(mockJSFeatures) |->
                      [keys |-> <<mockJSFeatures[i].api>> \o mockJSFeatures[i].methods,
                       feature |-> mockJSFeatures[i]]])]

\* new Map() twice, then loadData (which, for now, always takes the mock data)
EmptyMaps == [cssFeatures |-> <<>>, jsFeatures |-> <<>>]
MockCatalog == createMockData(EmptyMaps)

getCSSFeature(catalog, property) == MapGet(catalog.cssFeatures, property)
getJSFeature(catalog, api) == MapGet(catalog.jsFeatures, api)

(***************************************************************************)
(* The web-features package as the provider reads it.  An optional member  *)
(* is None when it is undefined and Some(value) otherwise; an absent or    *)
(* empty string member is "".  The features are the entries of             *)
(* Object.entries(data.features), in the object's key order.               *)
(***************************************************************************)
None == <<>>
Some(value) == <<value>>

WebFeature(id, css, properties, javascript, api, baseline) ==
  [id |-> id, css |-> css, properties |-> properties, javascript |-> javascript,
   api |-> api, methods |-> <<>>, baseline |-> baseline]
BaselineBoolean(value) == [type |-> "boolean", value |-> value, status |-> ""]
BaselineObject(status) == [type |-> "object", value |-> FALSE, status |-> status]
BaselineUndefined == [type |-> "undefined", value |-> FALSE, status |-> ""]

\* BaselineDataProvider.determineBaselineStatus
determineBaselineStatus(feature) ==
  IF feature.baseline.type = "boolean"
  THEN IF feature.baseline.value THEN "baseline" ELSE "not-baseline"
  ELSE IF feature.baseline.type = "object" /\ feature.baseline.status = "widely_available"
  THEN "baseline"
  ELSE IF feature.baseline.type = "object" /\ feature.baseline.status = "newly_available"
  THEN "limited"
  ELSE "not-baseline"

\* const cssFeature = { id: featureId, status: baselineStatus,
\*                      properties: feature.properties || [], ... }
cssFeatureOf(feature) ==
  [id |-> feature.id, status |-> determineBaselineStatus(feature),
   properties |-> IF feature.properties # None THEN feature.properties[1] ELSE <<>>]

\* const jsFeature = { id: featureId, status: baselineStatus,
\*                     api: feature.api || featureId, methods: feature.methods, ... }
jsFeatureOf(feature) ==
  [id |-> feature.id, status |-> determineBaselineStatus(feature),
   api |-> IF feature.api # "" THEN feature.api ELSE feature.id,
   methods |-> feature.methods]

\* The body of the loop of parseWebFeatures, for one entry of data.features
parseFeature(maps, feature) ==
  [cssFeatures |->
     IF feature.css \/ feature.properties # None
     THEN SetEach(maps.cssFeatures, cssFeatureOf(feature).properties,
                  cssFeatureOf(feature))
     ELSE maps.cssFeatures,
   jsFeatures |->
     IF feature.javascript \/ feature.api # ""
     THEN MapSet(maps.jsFeatures, jsFeatureOf(feature).api, jsFeatureOf(feature))
     ELSE maps.jsFeatures]

RECURSIVE parseFeatures(_, _)
parseFeatures(maps, features) ==
  IF features = <<>> THEN maps
  ELSE parseFeatures(parseFeature(maps, Head(features)), Tail(features))

\* BaselineDataProvider.parseWebFeatures, on the maps it is given
parseWebFeatures(maps, data) ==
  IF data.features # None THEN parseFeatures(maps, data.features[1]) ELSE maps

\* The built-in data as a source of a load
MockSource == [source |-> "mock", features |-> None]

\* What require('web-features') can return ...
Packages ==
  { [source |-> "package",
     features |-> Some(<<
       WebFeature("display", TRUE, Some(<<"display">>), FALSE, "",
                  BaselineBoolean(FALSE)),
       [WebFeature("fetch", FALSE, None, TRUE, "",
                   BaselineObject("newly_available"))
          EXCEPT !.methods = <<"fetch", "abort">>] >>)],
    [source |-> "package",
     features |-> Some(<<
       WebFeature("gap", FALSE, Some(<<"gap">>), FALSE, "", BaselineBoolean(TRUE)),
       WebFeature("gutters", FALSE, Some(<<"gap", "row-gap">>), FALSE, "",
                  BaselineObject("widely_available")),
       WebFeature("share", FALSE, None, FALSE, "navigator.share",
                  BaselineUndefined) >>)],
    [source |-> "package", features |-> None] }

\* ... or fail to find
MissingPackage == [source |-> "missing", features |-> None]

(***************************************************************************)
(* The projects the runs analyse, and the matches of their texts.  A scan  *)
(* of a text always gives the same matches, so they are computed once per  *)
(* text and pattern list and looked up afterwards.                         *)
(***************************************************************************)
File(name, text) == [name |-> name, text |-> text]

\* A small project: the scenarios of the specification and the edge cases.
SmallProject ==
  { File("a.css", ".x { display: flex; container-type: inline-size; unknown-prop: 1; }"),
    File("b.css", ".btn { gap: 4px;\n  constructor: none; }"),
    File("u.css", ".y { unknown-prop: 1; }"),
    File("t.css", ".z { toString: none; }"),
    File("m.js", "async function f() { await fetch('/x'); navigator.share({}); }"),
    File("d.js", "fetch(a); fetch(b);\nnew Promise(done);"),
    File("q.js", "const m = new Map();\nquerySelector('x');") }

\* A large project of one-usage files, for scores that need many usages.
LargeProject ==
  { File("g.js", "fetch(u);"),
    File("c.css", "s { container-type: size; }"),
    File("p.css", "s { constructor: x; }") }

ScannedTexts == {f.text : f \in SmallProject \cup LargeProject}

\* Every match of every pattern, pattern by pattern (patterns.forEach + exec loop).
MatchesOf(patterns, text) ==
  Concat([i \in 1..Len(patterns) |-> ExecAll(patterns[i], text, 1)])

PropertyMatchTable == {<<t, ExecAll(propertyRegex, t, 1)>> : t \in ScannedTexts}
CliMatchTable == {<<t, MatchesOf(CliPatterns, t)>> : t \in ScannedTexts}
WebpackMatchTable == {<<t, MatchesOf(WebpackPatterns, t)>> : t \in ScannedTexts}
BundlerMatchTable == {<<t, MatchesOf(BundlerPatterns, t)>> : t \in ScannedTexts}
ParserMatchTable ==
  {<<t, [i \in 1..Len(ParserPatterns) |-> ExecAll(ParserPatterns[i].regex, t, 1)]>> :
     t \in ScannedTexts}

TableGet(table, text) == (CHOOSE entry \in table : entry[1] = text)[2]

\* while ((match = propertyRegex.exec(content)) !== null)
PropertyMatches(text) == TableGet(PropertyMatchTable, text)
\* patterns.forEach(pattern => { while ((match = pattern.exec(content)) !== null)
CliMatches(text) == TableGet(CliMatchTable, text)
WebpackMatches(text) == TableGet(WebpackMatchTable, text)
BundlerMatches(text) == TableGet(BundlerMatchTable, text)
\* for (const { regex, type } of patterns) { while ((match = regex.exec(text)) ...
ParserMatches(text) == TableGet(ParserMatchTable, text)

(***************************************************************************)
(* Scanning and classifying one file.                                      *)
(***************************************************************************)
\* if (status === 'baseline') ...++ else if (status === 'limited') ...++ else ...++
\* over the entries whose status is truthy.
Tally(entries) ==
  [baseline    |-> CountStatus(entries, {"baseline"}),
   limited     |-> CountStatus(entries, {"limited"}),
   nonBaseline |-> Len(entries) - CountStatus(entries, {"baseline", "limited", Undefined})]

\* const api = match[1] || 'async'
ApiOf(m) == IF Group(m, 1) # "" THEN Group(m, 1) ELSE "async"

\* The usages a CSS loop sees in the matches ms of propertyRegex, each looked
\* up in an object literal catalog.  line is the line of the match (the loops
\* do not use it).
CssLookups(text, ms, catalog) ==
  [i \in 1..Len(ms) |->
     [feature |-> Group(ms[i], 1),
      status  |-> ObjGet(catalog, Group(ms[i], 1)),
      line    |-> LineOf(text, ms[i].index)]]

\* The same for a JS loop over the matches ms of a pattern list.
JsLookups(text, ms, catalog) ==
  [i \in 1..Len(ms) |->
     [feature |-> ApiOf(ms[i]),
      status  |-> ObjGet(catalog, ApiOf(ms[i])),
      line    |-> LineOf(text, ms[i].index)]]

\* if (status) { ... }
Counted(lookups) == SelectSeq(lookups, LAMBDA u : Truthy(u.status))

\* return { file, language, baselineCount, limitedCount, nonBaselineCount,
\*          features: Array.from(features) }
FileResult(file, language, counted, tally) ==
  [file |-> file, language |-> language,
   baselineCount |-> tally.baseline, limitedCount |-> tally.limited,
   nonBaselineCount |-> tally.nonBaseline,
   features |-> {counted[i].feature : i \in 1..Len(counted)}]

FileResultOf(file, language, counted) ==
  FileResult(file, language, counted, Tally(counted))

\* ProjectAnalyzer.analyzeCSSFile
analyzeCSSFile(file) ==
  FileResultOf(file.name, "css",
    Counted(CssLookups(file.text, PropertyMatches(file.text), CliBaselineData.css)))

\* ProjectAnalyzer.analyzeJSFile
analyzeJSFile(file) ==
  FileResultOf(file.name, "js",
    Counted(JsLookups(file.text, CliMatches(file.text), CliBaselineData.js)))

\* features.push({feature, status, file}) for every counted usage
FeatureUsages(counted, filename) ==
  [i \in 1..Len(counted) |->
     [feature |-> counted[i].feature, status |-> counted[i].status, file |-> filename]]

\* BaselineWebpackPlugin.analyzeCSS / analyzeJavaScript
WebpackAnalyzeCSS(source, filename) ==
  FeatureUsages(
    Counted(CssLookups(source, PropertyMatches(source), WebpackBaselineData.css)),
    filename)
WebpackAnalyzeJavaScript(source, filename) ==
  FeatureUsages(
    Counted(JsLookups(source, WebpackMatches(source), WebpackBaselineData.js)),
    filename)

RECURSIVE SeqToBag(_)
SeqToBag(seq) ==
  IF seq = <<>> THEN EmptyBag ELSE SetToBag({Head(seq)}) (+) SeqToBag(Tail(seq))

\* A variant of BundlerAdd that writes back counters read before any other
\* module was folded: the updates of the earlier modules are lost.
BundlerAddStale(analysis, usages, tally) ==
  [baseline    |-> tally.baseline,
   limited     |-> tally.limited,
   nonBaseline |-> tally.nonBaseline,
   features    |-> analysis.features (+) SeqToBag(usages)]

\* analysis.features.push(...); analysis.baseline++ / limited++ / nonBaseline++
BundlerAdd(analysis, usages, tally) ==
  [baseline    |-> analysis.baseline + tally.baseline,
   limited     |-> analysis.limited + tally.limited,
   nonBaseline |-> analysis.nonBaseline + tally.nonBaseline,
   features    |-> analysis.features (+) SeqToBag(usages)]

\* The body shared by analyzeCSS and analyzeJavaScript of the vite and rollup
\* plugins: push each counted usage and bump its counter.
BundlerFold(analysis, counted, filename) ==
  BundlerAdd(analysis, FeatureUsages(counted, filename), Tally(counted))

\* analyzeCSS(code, filename, analysis, baselineData.css)
BundlerAnalyzeCSS(code, filename, analysis) ==
  BundlerFold(analysis,
              Counted(CssLookups(code, PropertyMatches(code), BundlerBaselineData.css)),
              filename)

\* analyzeJavaScript(code, filename, analysis, baselineData.js)
BundlerAnalyzeJavaScript(code, filename, analysis) ==
  BundlerFold(analysis,
              Counted(JsLookups(code, BundlerMatches(code), BundlerBaselineData.js)),
              filename)

\* properties.push({ name, value, range })
PropertiesOf(text, ms) ==
  [i \in 1..Len(ms) |->
     [name  |-> Group(ms[i], 1),
      value |-> Trim(Group(ms[i], 2)),
      line  |-> LineOf(text, ms[i].index)]]

\* CSSParser.extractCSSProperties
extractCSSProperties(text) == PropertiesOf(text, PropertyMatches(text))

\* JSParser.cleanAPIName
cleanAPIName(apiName, type) ==
  LET name == StripLeadingNew(apiName)
  IN IF name = "async function" \/ Includes(name, "async") THEN "async"
     ELSE IF Includes(name, "await") THEN "async"
     ELSE IF StartsWithAt(name, 1, "navigator.") \/ StartsWithAt(name, 1, "document.")
          THEN name
     ELSE Trim(name)

\* JSParser.deduplicateUsages: keep the first usage of each `${line}:${api}`
RECURSIVE DedupFrom(_, _)
DedupFrom(usages, seenKeys) ==
  IF usages = <<>> THEN <<>>
  ELSE LET key == <<Head(usages).line, Head(usages).api>>
       IN IF key \in seenKeys THEN DedupFrom(Tail(usages), seenKeys)
          ELSE <<Head(usages)>> \o DedupFrom(Tail(usages), seenKeys \cup {key})

deduplicateUsages(usages) == DedupFrom(usages, {})

\* let apiName = match[1] || match[0]; usages.push({ api: cleanAPIName(...), range })
\* for the matches ms of one pattern; index is where the usage's range starts
UsagesOf(text, ms, type) ==
  [j \in 1..Len(ms) |->
     [api   |-> cleanAPIName(IF Group(ms[j], 1) # "" THEN Group(ms[j], 1)
                             ELSE ms[j].all,
                             type),
      line  |-> LineOf(text, ms[j].index),
      index |-> ms[j].index]]

AllUsagesOf(text, matches) ==
  Concat([i \in 1..Len(ParserPatterns) |->
            UsagesOf(text, matches[i], ParserPatterns[i].type)])

\* JSParser.extractAPIUsage
extractAPIUsage(text) == deduplicateUsages(AllUsagesOf(text, ParserMatches(text)))

(***************************************************************************)
(* Bounds and options.                                                     *)
(***************************************************************************)
\* Most files one run of the small project folds.
MaxFiles == 3
\* Most files one run of the large project folds (one usage per file).
MaxUsages == 40

ThresholdChoices == {0, 50, 80, 100}
DefaultThreshold == 80
MaxRefreshes == 2
MaxScans == 3
MaxBuilds == 2

\* str.endsWith
EndsWith(str, suffix) ==
  Len(suffix) <= Len(str) /\ SubSeq(str, Len(str) - Len(suffix) + 1, Len(str)) = suffix
HasExtension(name, exts) == \E e \in exts : EndsWith(name, "." \o e)

\* glob '**/*.{css,scss,less}' and '**/*.{js,ts,jsx,tsx}' (CLI and dashboard)
GlobCss(name) == HasExtension(name, {"css", "scss", "less"})
GlobJs(name) == HasExtension(name, {"js", "ts", "jsx", "tsx"})
\* /\.(css|scss|sass|less)$/ and /\.(js|jsx|ts|tsx)$/ (the three plugins)
cssRegex(name) == HasExtension(name, {"css", "scss", "sass", "less"})
jsRegex(name) == HasExtension(name, {"js", "jsx", "ts", "tsx"})

(***************************************************************************)
(* State.                                                                  *)
(***************************************************************************)
VARIABLES
  tool,       \* the integration that runs: cli, webpack, vite, rollup, dashboard
  options,    \* its options: threshold, failOnNonBaseline, cssOnly, jsOnly
  project,    \* the files the project holds (several may share a content)
  fileLimit,  \* how many files the project has
  seen,       \* history: the bag of files folded so far
  phase,      \* cli and dashboard: "css", "js", "done"; plugins: "scan", "done"
  analysis,   \* the running counters of the tool
  result,     \* after the end hook: the score and what the gate did
  catalog,    \* the editor's BaselineDataProvider: its cssFeatures and jsFeatures
  provider,   \* where the provider's loadData and refresh promises stand
  loads,      \* history: the sources the provider has loaded, in order
  classifiedWith, \* history: the catalogs the dashboard pass has read so far
  scans,      \* history: the calls of the editor's parsers and what they returned
  builds, \* history: the finished builds of a plugin instance in watch mode
  baselinerc, \* the CLI: what ConfigLoader.loadConfig reads from .baselinerc.json
  editor  \* the editor session: status bar, debounce timer, dashboard refreshes

vars == <<tool, options, project, fileLimit, seen, phase, analysis, result,
          catalog, provider, loads, classifiedWith, scans, builds, baselinerc, editor>>

GateTools == {"cli", "webpack", "vite", "rollup"}

\* ConfigLoader.loadConfig when there is no .baselinerc.json: return {}
NoConfigFile == [threshold |-> None, failOnNonBaseline |-> None]

\* setTimeout(..., 500) in activate
DebounceMs == 500
\* How far one step of the clock advances the time
TickMs == 250
\* How many changes of the active document and how many `refresh` messages
\* of the webview a session has
MaxEdits == 2
MaxMessages == 1

\* activate before any event: the status bar shows the catalog statistics,
\* `let timeout` is undefined (0), no timer is pending, the dashboard view
\* is not resolved.  (handles, sinceChange, runs, edits, messages are
\* history: handles handed out, time since the last change capped at
\* DebounceMs, timer callbacks run since the last change.)
NoEditor ==
  [statusBar |-> "stats", view |-> FALSE, timers |-> {}, timeout |-> 0,
   handles |-> 0, sinceChange |-> DebounceMs, runs |-> 0, edits |-> 0,
   messages |-> 0, passes |-> <<>>, shown |-> 0]

\* BaselineDashboardPanel.refresh up to `await this.getProjectStats()`, which
\* itself runs to `await vscode.workspace.findFiles(...)`
dashboardPanelRefresh(e) ==
  IF e.view THEN [e EXCEPT !.passes = Append(@, [step |-> "findFiles", read |-> 0])]
  ELSE e

\* this._view = webviewView; ...; this.refresh()
resolveWebviewView(e) == dashboardPanelRefresh([e EXCEPT !.view = TRUE])

clearTimeoutIgnored(timers, handle) == timers

\* clearTimeout(timeout)
clearTimeout(timers, handle) == {t \in timers : t.id # handle}

\* setTimeout(callback, 500)
setTimeout(timers, handle) == timers \cup {[id |-> handle, remaining |-> DebounceMs]}

\* The onDidChangeTextDocument listener for a change of the active document
onDidChangeTextDocument(e) ==
  [e EXCEPT !.timers = setTimeout(IF e.timeout # 0 THEN clearTimeout(e.timers, e.timeout)
                                  ELSE e.timers,
                                  e.handles + 1),
            !.timeout = e.handles + 1,
            !.handles = e.handles + 1,
            !.sinceChange = 0,
            !.runs = 0,
            !.edits = e.edits + 1]

\* The timer callback: decorateEditor(editor); dashboardPanel.refresh()
timeoutCallback(e, t) ==
  dashboardPanelRefresh([e EXCEPT !.timers = e.timers \ {t}, !.runs = e.runs + 1])

\* Time passes by TickMs
tick(e) ==
  [e EXCEPT !.timers = {[t EXCEPT !.remaining = IF @ > TickMs THEN @ - TickMs ELSE 0] :
                          t \in e.timers},
            !.sinceChange = IF @ + TickMs < DebounceMs THEN @ + TickMs ELSE DebounceMs]

\* A dashboard pass resumes after the await it is suspended at: findFiles,
\* then openTextDocument of the edited document (whose text it reads then),
\* then openTextDocument of the other documents; after the last one
\* getProjectStats returns and refresh posts { type: 'update', stats }.
passResumes(e, i) ==
  IF e.passes[i].step = "findFiles"
    THEN [e EXCEPT !.passes[i].step = "openTextDocument"]
  ELSE IF e.passes[i].step = "openTextDocument"
    THEN [e EXCEPT !.passes[i] = [step |-> "openOthers", read |-> e.edits]]
  ELSE [e EXCEPT !.passes[i].step = "posted", !.shown = i]

\* updateStatusBar(editor)
updateStatusBar(e, isCssOrJs) ==
  [e EXCEPT !.statusBar = IF isCssOrJs THEN "active" ELSE "stats"]

\* The provider before `new BaselineDataProvider(context)`: no promise yet
\* (before is history: the maps as they were when refresh was last called)
NoProvider == [loadData |-> "none", refresh |-> "none", cacheFailed |-> FALSE,
               refreshes |-> 0, lastUpdate |-> FALSE, before |-> EmptyMaps]
\* The provider once activate has run and loadData has settled
Activated == [NoProvider EXCEPT !.loadData = "resolved"]
Tools == GateTools \cup {"dashboard"}

\* let totalBaseline = 0 ... / const analysis = {...} / let baselineCSSCount = 0 ...
InitialAnalysis(t) ==
  CASE t = "cli" ->
         [totalBaseline |-> 0, totalLimited |-> 0, totalNonBaseline |-> 0,
          fileResults |-> EmptyBag]
    [] t = "webpack" -> [features |-> EmptyBag]
    [] t \in {"vite", "rollup"} ->
         [baseline |-> 0, limited |-> 0, nonBaseline |-> 0, features |-> EmptyBag]
    [] t = "dashboard" ->
         [totalCSSProperties |-> 0, totalJSAPIs |-> 0,
          baselineCSSCount |-> 0, limitedCSSCount |-> 0, nonBaselineCSSCount |-> 0,
          baselineJSCount |-> 0, limitedJSCount |-> 0, nonBaselineJSCount |-> 0]

NoResult == [score |-> 0, baseline |-> 0, limited |-> 0, nonBaseline |-> 0,
             warned |-> FALSE, failed |-> FALSE]

\* The option records a run can start with.  The CLI takes its threshold as the
\* string typed on the command line; the dashboard has no options.
OptionChoices(t, thresholds, flags) ==
  IF t = "dashboard"
  THEN {[threshold |-> DefaultThreshold, failOnNonBaseline |-> FALSE,
         cssOnly |-> FALSE, jsOnly |-> FALSE]}
  ELSE {[threshold |-> IF t = "cli" THEN ToString(th) ELSE th,
         failOnNonBaseline |-> strict, cssOnly |-> co, jsOnly |-> jo] :
          th \in thresholds, strict \in BOOLEAN, co \in flags, jo \in flags}

InitWith(files, limit, thresholds, flags) ==
  /\ tool \in Tools
  /\ options \in OptionChoices(tool, thresholds, flags)
  /\ project = files
  /\ fileLimit = limit
  /\ seen = EmptyBag
  /\ phase = IF tool \in {"cli", "dashboard"} THEN "css" ELSE "scan"
  /\ analysis = InitialAnalysis(tool)
  /\ result = NoResult
  /\ catalog = IF tool = "dashboard" THEN MockCatalog ELSE EmptyMaps
  /\ provider = IF tool = "dashboard" THEN Activated ELSE NoProvider
  /\ loads = IF tool = "dashboard" THEN <<MockSource>> ELSE <<>>
  /\ classifiedWith = {}
  /\ scans = <<>>
  /\ builds = <<>>
  /\ baselinerc = NoConfigFile
  /\ editor = IF tool = "dashboard" THEN resolveWebviewView(NoEditor) ELSE NoEditor

Init == InitWith(SmallProject, MaxFiles, ThresholdChoices, BOOLEAN)
InitLarge == InitWith(LargeProject, MaxUsages, {DefaultThreshold}, {FALSE})

MoreFiles == BagCardinality(seen) < fileLimit
Fold(file) == seen' = seen (+) SetToBag({file})

(***************************************************************************)
(* The gates.  Each returns what the caller sees: warned (a warning was    *)
(* printed or emitted) and failed (exit code 1, a thrown error, this.error *)
(* or an error pushed to the compilation).                                 *)
(***************************************************************************)
\* A variant of runCheck that warns at the threshold itself.
runCheckInclusive(opts, baselineScore, nonBaselineCount) ==
  LET threshold == parseInt(opts.threshold)
      below == threshold # NaN /\ baselineScore <= threshold
  IN [warned |-> below,
      failed |-> (below /\ opts.failOnNonBaseline)
                   \/ (opts.failOnNonBaseline /\ nonBaselineCount > 0)]

\* runCheck, "Check thresholds" onwards: process.exit(1) ends the run at once.
runCheck(opts, baselineScore, nonBaselineCount) ==
  LET threshold == parseInt(opts.threshold)
      below == threshold # NaN /\ baselineScore < threshold
  IN [warned |-> below,
      failed |-> (below /\ opts.failOnNonBaseline)
                   \/ (opts.failOnNonBaseline /\ nonBaselineCount > 0)]

\* A variant of checkThresholds that looks at the score only.
checkThresholdsScoreOnly(opts, score, nonBaselineCount) ==
  opts.threshold # 0 /\ score < opts.threshold

\* BaselineWebpackPlugin.checkThresholds
checkThresholds(opts, score, nonBaselineCount) ==
  IF opts.failOnNonBaseline /\ nonBaselineCount > 0 THEN TRUE
  ELSE IF opts.threshold # 0 /\ score < opts.threshold THEN TRUE
  ELSE FALSE

\* closeBundle of the vite plugin: throw new Error / console.warn
closeBundle(config, score, nonBaseline) ==
  LET below == config.threshold # 0 /\ score < config.threshold
  IN [warned |-> below /\ ~config.failOnNonBaseline,
      failed |-> (below /\ config.failOnNonBaseline)
                   \/ (config.failOnNonBaseline /\ nonBaseline > 0)]

\* generateBundle of the rollup plugin: this.error / this.warn
generateBundle(config, score, nonBaseline) ==
  LET below == config.threshold # 0 /\ score < config.threshold
  IN [warned |-> below /\ ~config.failOnNonBaseline,
      failed |-> (below /\ config.failOnNonBaseline)
                   \/ (config.failOnNonBaseline /\ nonBaseline > 0)]

(***************************************************************************)
(* The CLI: ProjectAnalyzer.analyze, one step per loop iteration, then the *)
(* rest of runCheck.                                                       *)
(***************************************************************************)
\* A variant of CliFold that keeps the counters of the last file only.
CliFoldLast(a, fileResult) ==
  [totalBaseline    |-> fileResult.baselineCount,
   totalLimited     |-> fileResult.limitedCount,
   totalNonBaseline |-> fileResult.nonBaselineCount,
   fileResults      |-> a.fileResults (+) SetToBag({fileResult})]

\* fileResults.push(result); totalBaseline += result.baselineCount; ...
CliFold(a, fileResult) ==
  [totalBaseline    |-> a.totalBaseline + fileResult.baselineCount,
   totalLimited     |-> a.totalLimited + fileResult.limitedCount,
   totalNonBaseline |-> a.totalNonBaseline + fileResult.nonBaselineCount,
   fileResults      |-> a.fileResults (+) SetToBag({fileResult})]

\* results.baselineScore and what runCheck does with it
GateResult(score, baseline, limited, nonBaseline, gate) ==
  [score |-> score, baseline |-> baseline, limited |-> limited,
   nonBaseline |-> nonBaseline, warned |-> gate.warned, failed |-> gate.failed]
\* const mergedOptions = { ...config, ...options }: --threshold has a default
\* and is always a key of options; failOnNonBaseline is one only when the flag
\* was given.
mergedOptions(rc, opts) ==
  [opts EXCEPT !.failOnNonBaseline =
     IF opts.failOnNonBaseline THEN TRUE
     ELSE IF rc.failOnNonBaseline # None THEN rc.failOnNonBaseline[1]
     ELSE FALSE]

\* A variant of gateOptions in which the gate reads the merged options.
gateOptionsMerged(rc, opts) == mergedOptions(rc, opts)

\* parseInt(options.threshold), options.failOnNonBaseline: the gate reads the
\* command-line options; mergedOptions is read for its path only.
gateOptions(rc, opts) == opts

CliResultUnder(rc, baselineScore) ==
  GateResult(baselineScore, analysis.totalBaseline, analysis.totalLimited,
             analysis.totalNonBaseline,
             runCheck(gateOptions(rc, options), baselineScore,
                      analysis.totalNonBaseline))
CliResult(baselineScore) == CliResultUnder(baselinerc, baselineScore)

CliAnalyzeCSSFile ==
  /\ tool = "cli" /\ phase = "css" /\ ~options.jsOnly /\ MoreFiles
  /\ \E file \in project :
       /\ GlobCss(file.name)
       /\ analysis' = CliFold(analysis, analyzeCSSFile(file))
       /\ Fold(file)
  /\ UNCHANGED <<tool, options, project, fileLimit, phase, result,
               catalog, provider, loads, classifiedWith, scans, builds, baselinerc, editor>>

CliAnalyzeJSFile ==
  /\ tool = "cli" /\ phase \in {"css", "js"} /\ ~options.cssOnly /\ MoreFiles
  /\ \E file \in project :
       /\ GlobJs(file.name)
       /\ analysis' = CliFold(analysis, analyzeJSFile(file))
       /\ Fold(file)
  /\ phase' = "js"
  /\ UNCHANGED <<tool, options, project, fileLimit, result,
               catalog, provider, loads, classifiedWith, scans, builds, baselinerc, editor>>

CliCheck ==
  /\ tool = "cli" /\ phase \in {"css", "js"}
  /\ result' = CliResult(Score(analysis.totalBaseline, analysis.totalLimited,
                                analysis.totalNonBaseline))
  /\ phase' = "done"
  /\ UNCHANGED <<tool, options, project, fileLimit, seen, analysis,
               catalog, provider, loads, classifiedWith, scans, builds, baselinerc, editor>>

(***************************************************************************)
(* The webpack plugin: the emit hook, one step per asset, then the count,  *)
(* the score and the threshold check.                                      *)
(***************************************************************************)
\* The entries of a bag whose status is among the given ones, with their
\* multiplicities.
BagCount(bag, statuses) ==
  BagCardinality([e \in {x \in BagToSet(bag) : x.status \in statuses} |-> bag[e]])

\* features.forEach(f => { if (f.status === 'baseline') ... })
WebpackCount(features) ==
  [baseline    |-> BagCount(features, {"baseline"}),
   limited     |-> BagCount(features, {"limited"}),
   nonBaseline |-> BagCardinality(features) - BagCount(features, {"baseline", "limited"})]

\* if (this.cssRegex.test(filename) && !this.options.jsOnly) ...
WebpackAssetCss(file) ==
  IF cssRegex(file.name) /\ ~options.jsOnly
  THEN WebpackAnalyzeCSS(file.text, file.name) ELSE <<>>
\* if (this.jsRegex.test(filename) && !this.options.cssOnly) ...
WebpackAssetJs(file) ==
  IF jsRegex(file.name) /\ ~options.cssOnly
  THEN WebpackAnalyzeJavaScript(file.text, file.name) ELSE <<>>

\* const score = ...; const shouldFail = this.checkThresholds(score, nonBaselineCount)
WebpackGate(count, score) ==
  [score |-> score, baseline |-> count.baseline,
   limited |-> count.limited, nonBaseline |-> count.nonBaseline,
   warned |-> FALSE, failed |-> checkThresholds(options, score, count.nonBaseline)]
WebpackResult(count) ==
  WebpackGate(count, Score(count.baseline, count.limited, count.nonBaseline))

WebpackAsset ==
  /\ tool = "webpack" /\ phase = "scan" /\ MoreFiles
  /\ \E file \in project :
       /\ analysis' = [features |-> analysis.features
                           (+) SeqToBag(WebpackAssetCss(file) \o WebpackAssetJs(file))]
       /\ Fold(file)
  /\ UNCHANGED <<tool, options, project, fileLimit, phase, result,
               catalog, provider, loads, classifiedWith, scans, builds, baselinerc, editor>>

WebpackEmit ==
  /\ tool = "webpack" /\ phase = "scan"
  /\ result' = WebpackResult(WebpackCount(analysis.features))
  /\ phase' = "done"
  /\ UNCHANGED <<tool, options, project, fileLimit, seen, analysis,
               catalog, provider, loads, classifiedWith, scans, builds, baselinerc, editor>>

(***************************************************************************)
(* The vite and rollup plugins: transform per module, then the bundle-end  *)
(* hook.                                                                   *)
(***************************************************************************)
\* transform(code, id)
transformJs(config, a, file) ==
  IF jsRegex(file.name) /\ ~config.cssOnly
  THEN BundlerAnalyzeJavaScript(file.text, file.name, a) ELSE a
transform(config, a, file) ==
  transformJs(config,
              IF cssRegex(file.name) /\ ~config.jsOnly
              THEN BundlerAnalyzeCSS(file.text, file.name, a) ELSE a,
              file)

\* const total = ...; const score = ...
BundleScore == Score(analysis.baseline, analysis.limited, analysis.nonBaseline)
BundleEnd(score, gate) ==
  GateResult(score, analysis.baseline, analysis.limited, analysis.nonBaseline, gate)
ViteEnd(score) == BundleEnd(score, closeBundle(options, score, analysis.nonBaseline))
RollupEnd(score) == BundleEnd(score, generateBundle(options, score, analysis.nonBaseline))

ViteTransform ==
  /\ tool = "vite" /\ phase = "scan" /\ MoreFiles
  /\ \E file \in project :
       /\ analysis' = transform(options, analysis, file)
       /\ Fold(file)
  /\ UNCHANGED <<tool, options, project, fileLimit, phase, result,
               catalog, provider, loads, classifiedWith, scans, builds, baselinerc, editor>>

ViteCloseBundle ==
  /\ tool = "vite" /\ phase = "scan"
  /\ result' = ViteEnd(BundleScore)
  /\ phase' = "done"
  /\ UNCHANGED <<tool, options, project, fileLimit, seen, analysis,
               catalog, provider, loads, classifiedWith, scans, builds, baselinerc, editor>>

RollupTransform ==
  /\ tool = "rollup" /\ phase = "scan" /\ MoreFiles
  /\ \E file \in project :
       /\ analysis' = transform(options, analysis, file)
       /\ Fold(file)
  /\ UNCHANGED <<tool, options, project, fileLimit, phase, result,
               catalog, provider, loads, classifiedWith, scans, builds, baselinerc, editor>>

RollupGenerateBundle ==
  /\ tool = "rollup" /\ phase = "scan"
  /\ result' = RollupEnd(BundleScore)
  /\ phase' = "done"
  /\ UNCHANGED <<tool, options, project, fileLimit, seen, analysis,
               catalog, provider, loads, classifiedWith, scans, builds, baselinerc, editor>>

(***************************************************************************)
(* The dashboard: getProjectStats, one step per file, then the score.      *)
(***************************************************************************)
\* if (feature) { ... }: of the features looked up, those that are one.
Classified(features) == SelectSeq(features, LAMBDA feature : feature # NoFeature)

\* const seenOnLine = new Set(); if (seenOnLine.has(api.line)) continue;
RECURSIVE FirstOnLine(_, _)
FirstOnLine(apis, seenOnLine) ==
  IF apis = <<>> THEN <<>>
  ELSE IF Head(apis).line \in seenOnLine THEN FirstOnLine(Tail(apis), seenOnLine)
  ELSE <<Head(apis)>> \o FirstOnLine(Tail(apis), seenOnLine \cup {Head(apis).line})

\* totalCSSProperties += properties.length; baselineCSSCount++ / ...
DashboardCSSAdd(a, properties, tally) ==
  [a EXCEPT !.totalCSSProperties = @ + Len(properties),
            !.baselineCSSCount = @ + tally.baseline,
            !.limitedCSSCount = @ + tally.limited,
            !.nonBaselineCSSCount = @ + tally.nonBaseline]

\* The body of the loop over cssUris
DashboardCSS(a, properties, maps) ==
  DashboardCSSAdd(a, properties,
    Tally(Classified([i \in 1..Len(properties) |->
                        getCSSFeature(maps, properties[i].name)])))

\* totalJSAPIs += apis.length; baselineJSCount++ / ...
DashboardJSAdd(a, apis, tally) ==
  [a EXCEPT !.totalJSAPIs = @ + Len(apis),
            !.baselineJSCount = @ + tally.baseline,
            !.limitedJSCount = @ + tally.limited,
            !.nonBaselineJSCount = @ + tally.nonBaseline]

\* The body of the loop over jsUris
DashboardJSLookups(apis, maps) ==
  [i \in 1..Len(apis) |-> getJSFeature(maps, apis[i].api)]
DashboardJS(a, apis, maps) ==
  DashboardJSAdd(a, apis,
                 Tally(Classified(DashboardJSLookups(FirstOnLine(apis, {}), maps))))

DashboardCSSFile ==
  /\ tool = "dashboard" /\ phase = "css" /\ MoreFiles
  /\ provider.loadData = "resolved"
  /\ \E file \in project :
       /\ GlobCss(file.name)
       /\ analysis' = DashboardCSS(analysis, extractCSSProperties(file.text), catalog)
       /\ Fold(file)
  /\ classifiedWith' = classifiedWith \cup {catalog}
  /\ UNCHANGED <<tool, options, project, fileLimit, phase, result,
               catalog, provider, loads, scans, builds, baselinerc, editor>>

DashboardJSFile ==
  /\ tool = "dashboard" /\ phase \in {"css", "js"} /\ MoreFiles
  /\ provider.loadData = "resolved"
  /\ \E file \in project :
       /\ GlobJs(file.name)
       /\ analysis' = DashboardJS(analysis, extractAPIUsage(file.text), catalog)
       /\ Fold(file)
  /\ phase' = "js"
  /\ classifiedWith' = classifiedWith \cup {catalog}
  /\ UNCHANGED <<tool, options, project, fileLimit, result,
               catalog, provider, loads, scans, builds, baselinerc, editor>>

\* const baselineScore = totalFeatures > 0 ? Math.round(...) : 100
DashboardResult(totalBaseline, totalFeatures) ==
  [score |-> IF totalFeatures > 0 THEN JsPercent(totalBaseline, totalFeatures) ELSE 100,
   baseline |-> totalBaseline,
   limited |-> analysis.limitedCSSCount + analysis.limitedJSCount,
   nonBaseline |-> analysis.nonBaselineCSSCount + analysis.nonBaselineJSCount,
   warned |-> FALSE, failed |-> FALSE]

DashboardStats ==
  /\ tool = "dashboard" /\ phase \in {"css", "js"}
  /\ provider.loadData = "resolved"
  /\ result' = DashboardResult(analysis.baselineCSSCount + analysis.baselineJSCount,
                                analysis.totalCSSProperties + analysis.totalJSAPIs)
  /\ phase' = "done"
  /\ UNCHANGED <<tool, options, project, fileLimit, seen, analysis,
               catalog, provider, loads, classifiedWith, scans, builds, baselinerc, editor>>

Next ==
  \/ CliAnalyzeCSSFile \/ CliAnalyzeJSFile \/ CliCheck
  \/ WebpackAsset \/ WebpackEmit
  \/ ViteTransform \/ ViteCloseBundle
  \/ RollupTransform \/ RollupGenerateBundle
  \/ DashboardCSSFile \/ DashboardJSFile \/ DashboardStats

Spec == Init /\ [][Next]_vars
SpecLarge == InitLarge /\ [][Next]_vars

(***************************************************************************)
(* The CLI in a project that may hold a .baselinerc.json.                  *)
(***************************************************************************)
\* The well-formed contents of the file, and no file
ConfigFiles ==
  { NoConfigFile,
    [threshold |-> Some(100), failOnNonBaseline |-> Some(TRUE)],
    [threshold |-> Some(0), failOnNonBaseline |-> Some(FALSE)],
    [threshold |-> None, failOnNonBaseline |-> Some(TRUE)] }

InitConfig ==
  /\ tool = "cli"
  /\ options \in OptionChoices(tool, ThresholdChoices, BOOLEAN)
  /\ project = SmallProject
  /\ fileLimit = MaxFiles
  /\ seen = EmptyBag
  /\ phase = "css"
  /\ analysis = InitialAnalysis(tool)
  /\ result = NoResult
  /\ catalog = EmptyMaps
  /\ provider = NoProvider
  /\ loads = <<>>
  /\ classifiedWith = {}
  /\ scans = <<>>
  /\ builds = <<>>
  /\ baselinerc \in ConfigFiles
  /\ editor = NoEditor

NextConfig == CliAnalyzeCSSFile \/ CliAnalyzeJSFile \/ CliCheck

SpecConfig == InitConfig /\ [][NextConfig]_vars

(***************************************************************************)
(* The editor extension with its data provider: activate constructs the   *)
(* provider, the dashboard runs one getProjectStats pass, and the          *)
(* baseline.refreshData command can run whenever the pass awaits.          *)
(***************************************************************************)

\* loadData up to its await: createMockData(), then cacheData() is called
loadDataStart(maps) == createMockData(maps)

\* A variant of loadDataSettle without the catch block: a failed cache write
\* rejects the promise and the mock data is not created again.
loadDataUncaught(maps, cacheFailed) ==
  [maps |-> maps, outcome |-> IF cacheFailed THEN "rejected" ELSE "resolved"]

\* loadData from its await on: `return` when the cache was written, the catch
\* block (console.error, createMockData) when cacheData rejected
loadDataSettle(maps, cacheFailed) ==
  [maps |-> IF cacheFailed THEN createMockData(maps) ELSE maps,
   outcome |-> "resolved"]

\* loadFromPackage up to its await: require, parseWebFeatures, cacheData()
loadFromPackageStart(maps, data) ==
  IF data.source = "missing" THEN maps ELSE parseWebFeatures(maps, data)

\* loadFromPackage from its await (or from the failed require) on: the catch
\* block logs and rethrows, and refresh hands the rejection to the command
loadFromPackageSettle(failed) == IF failed THEN "rejected" ELSE "resolved"

\* The files of the workspace the dashboard scans
CatalogProject ==
  { File("a.css", ".x { display: flex; container-type: inline-size; unknown-prop: 1; }"),
    File("b.css", ".btn { gap: 4px;\n  constructor: none; }"),
    File("m.js", "async function f() { await fetch('/x'); navigator.share({}); }") }

InitCatalog ==
  /\ tool = "dashboard"
  /\ options \in OptionChoices(tool, {DefaultThreshold}, {FALSE})
  /\ project = CatalogProject
  /\ fileLimit = MaxFiles
  /\ seen = EmptyBag
  /\ phase = "css"
  /\ analysis = InitialAnalysis(tool)
  /\ result = NoResult
  /\ catalog = EmptyMaps
  /\ provider = NoProvider
  /\ loads = <<>>
  /\ classifiedWith = {}
  /\ scans = <<>>
  /\ builds = <<>>
  /\ baselinerc = NoConfigFile
  /\ editor = IF tool = "dashboard" THEN resolveWebviewView(NoEditor) ELSE NoEditor

\* activate: dataProvider = new BaselineDataProvider(context).  The constructor
\* calls loadData without awaiting it and returns while loadData is suspended
\* at `await this.cacheData()`; writing the cache file may have failed.
ProviderConstruct ==
  /\ tool = "dashboard" /\ provider.loadData = "none"
  /\ catalog' = loadDataStart(catalog)
  /\ loads' = Append(loads, MockSource)
  /\ \E cacheFails \in BOOLEAN :
       provider' = [provider EXCEPT !.loadData = "awaiting", !.cacheFailed = cacheFails]
  /\ UNCHANGED <<tool, options, project, fileLimit, seen, phase, analysis, result,
               classifiedWith, scans, builds, baselinerc, editor>>

\* loadData resumes after its await
ProviderLoadDataSettle ==
  /\ tool = "dashboard" /\ provider.loadData = "awaiting"
  /\ catalog' = loadDataSettle(catalog, provider.cacheFailed).maps
  /\ loads' = IF provider.cacheFailed THEN Append(loads, MockSource) ELSE loads
  /\ provider' = [provider EXCEPT
                    !.loadData = loadDataSettle(catalog, provider.cacheFailed).outcome,
                    !.cacheFailed = FALSE]
  /\ UNCHANGED <<tool, options, project, fileLimit, seen, phase, analysis, result,
               classifiedWith, scans, builds, baselinerc, editor>>

\* The baseline.refreshData command up to `await dataProvider.refresh()`:
\* refresh calls loadFromPackage, which runs to `await this.cacheData()`.
RefreshData ==
  /\ tool = "dashboard" /\ provider.loadData = "resolved"
  /\ provider.refresh # "awaiting" /\ provider.refreshes < MaxRefreshes
  /\ \E data \in Packages \cup {MissingPackage}, cacheFails \in BOOLEAN :
       /\ catalog' = loadFromPackageStart(catalog, data)
       /\ loads' = IF data.source = "missing" THEN loads ELSE Append(loads, data)
       /\ provider' = [provider EXCEPT
                         !.refresh = "awaiting",
                         !.before = catalog,
                         !.cacheFailed = (data.source = "missing" \/ cacheFails),
                         !.refreshes = @ + 1]
  /\ editor' = [editor EXCEPT !.statusBar = "refreshing"]
  /\ UNCHANGED <<tool, options, project, fileLimit, seen, phase, analysis, result,
               classifiedWith, scans, builds, baselinerc>>

\* The command resumes.  When refresh resolved: lastUpdate is set, the status
\* bar shows the statistics again, the editor is decorated and
\* dashboardPanel.refresh() starts a pass (with counters of its own, it
\* leaves those of a pass in flight alone).  When refresh rejected, the
\* command ends there: there is no try around the await.
RefreshSettle ==
  /\ tool = "dashboard" /\ provider.refresh = "awaiting"
  /\ provider' = [provider EXCEPT
                    !.refresh = loadFromPackageSettle(provider.cacheFailed),
                    !.lastUpdate = @ \/ ~provider.cacheFailed,
                    !.cacheFailed = FALSE]
  /\ editor' = IF loadFromPackageSettle(provider.cacheFailed) = "resolved"
                 THEN dashboardPanelRefresh([editor EXCEPT !.statusBar = "stats"])
                 ELSE editor
  /\ UNCHANGED <<tool, options, project, fileLimit, seen, phase, analysis, result,
               catalog, loads, classifiedWith, scans, builds, baselinerc>>

NextCatalog ==
  \/ ProviderConstruct \/ ProviderLoadDataSettle
  \/ RefreshData \/ RefreshSettle
  \/ DashboardCSSFile \/ DashboardJSFile \/ DashboardStats

SpecCatalog == InitCatalog /\ [][NextCatalog]_vars

\* The provider alone: its construction and any refreshes, no dashboard pass
NextLoader ==
  \/ ProviderConstruct \/ ProviderLoadDataSettle
  \/ RefreshData \/ RefreshSettle

SpecLoader == InitCatalog /\ [][NextLoader]_vars

\* onDidChangeActiveTextEditor: updateStatusBar(editor); decorateEditor(editor)
ChangeActiveTextEditor ==
  /\ tool = "dashboard" /\ provider.loadData # "none"
  /\ \E isCssOrJs \in BOOLEAN : editor' = updateStatusBar(editor, isCssOrJs)
  /\ UNCHANGED <<tool, options, project, fileLimit, seen, phase, analysis, result,
               catalog, provider, loads, classifiedWith, scans, builds, baselinerc>>

\* The provider, the baseline.refreshData command and the status bar
NextCommand ==
  \/ ProviderConstruct \/ ProviderLoadDataSettle
  \/ RefreshData \/ RefreshSettle
  \/ ChangeActiveTextEditor

SpecCommand == InitCatalog /\ [][NextCommand]_vars

(***************************************************************************)
(* The editor session: the debounced re-decoration and the dashboard's     *)
(* overlapping refreshes.                                                  *)
(***************************************************************************)
\* activate has run and loadData has settled; the dashboard view is not yet shown
InitEditor ==
  /\ tool = "dashboard"
  /\ options \in OptionChoices(tool, {DefaultThreshold}, {FALSE})
  /\ project = CatalogProject
  /\ fileLimit = MaxFiles
  /\ seen = EmptyBag
  /\ phase = "css"
  /\ analysis = InitialAnalysis(tool)
  /\ result = NoResult
  /\ catalog = MockCatalog
  /\ provider = Activated
  /\ loads = <<MockSource>>
  /\ classifiedWith = {}
  /\ scans = <<>>
  /\ builds = <<>>
  /\ baselinerc = NoConfigFile
  /\ editor = NoEditor

\* VS Code shows the dashboard view
ResolveWebviewView ==
  /\ tool = "dashboard" /\ ~editor.view
  /\ editor' = resolveWebviewView(editor)
  /\ UNCHANGED <<tool, options, project, fileLimit, seen, phase, analysis, result,
               catalog, provider, loads, classifiedWith, scans, builds, baselinerc>>

\* The webview sends { type: 'refresh' }: await this.refresh()
WebviewRefreshMessage ==
  /\ tool = "dashboard" /\ editor.view /\ editor.messages < MaxMessages
  /\ editor' = dashboardPanelRefresh([editor EXCEPT !.messages = @ + 1])
  /\ UNCHANGED <<tool, options, project, fileLimit, seen, phase, analysis, result,
               catalog, provider, loads, classifiedWith, scans, builds, baselinerc>>

\* The user changes the text of the active document
ChangeTextDocument ==
  /\ tool = "dashboard" /\ editor.edits < MaxEdits
  /\ editor' = onDidChangeTextDocument(editor)
  /\ UNCHANGED <<tool, options, project, fileLimit, seen, phase, analysis, result,
               catalog, provider, loads, classifiedWith, scans, builds, baselinerc>>

\* Time passes (a timer may fire late, never early)
Tick ==
  /\ tool = "dashboard" /\ editor' = tick(editor) /\ editor' # editor
  /\ UNCHANGED <<tool, options, project, fileLimit, seen, phase, analysis, result,
               catalog, provider, loads, classifiedWith, scans, builds, baselinerc>>

\* A timer that is due runs its callback
TimeoutFires ==
  /\ tool = "dashboard"
  /\ \E t \in editor.timers :
       /\ t.remaining = 0
       /\ editor' = timeoutCallback(editor, t)
  /\ UNCHANGED <<tool, options, project, fileLimit, seen, phase, analysis, result,
               catalog, provider, loads, classifiedWith, scans, builds, baselinerc>>

\* The promise some dashboard pass awaits resolves; VS Code settles the
\* requests of different passes in no fixed order
PassResumes ==
  /\ tool = "dashboard"
  /\ \E i \in DOMAIN editor.passes :
       /\ editor.passes[i].step # "posted"
       /\ editor' = passResumes(editor, i)
  /\ UNCHANGED <<tool, options, project, fileLimit, seen, phase, analysis, result,
               catalog, provider, loads, classifiedWith, scans, builds, baselinerc>>

NextEditor ==
  \/ ResolveWebviewView \/ WebviewRefreshMessage
  \/ ChangeTextDocument \/ Tick \/ TimeoutFires
  \/ PassResumes

SpecEditor == InitEditor /\ [][NextEditor]_vars

(***************************************************************************)
(* The editor's parsers, called on any texts in any order (the decorators, *)
(* the hover provider and the dashboard each hold instances of them).      *)
(***************************************************************************)

\* A variant of lastIndexOfLiteral in which the pattern objects outlive the call
\* and start each scan one position further than the scan before.
lastIndexShared(earlier) == Len(earlier)

\* `const propertyRegex = /.../g` and the literals of `const patterns = [...]`
\* are evaluated by each call: the RegExp objects are new and their lastIndex
\* is 0, whatever the earlier calls did.
lastIndexOfLiteral(earlier) == 0

\* CSSParser.extractCSSProperties with its pattern starting at lastIndex
scanCSS(text, lastIndex) ==
  PropertiesOf(text, ExecAll(propertyRegex, text, lastIndex + 1))

\* JSParser.extractAPIUsage with its patterns starting at lastIndex
scanJS(text, lastIndex) ==
  deduplicateUsages(
    AllUsagesOf(text, [i \in 1..Len(ParserPatterns) |->
                         ExecAll(ParserPatterns[i].regex, text, lastIndex + 1)]))

\* The texts handed to the parsers
ScanTexts ==
  { ".y { gap: 2px; color: red; }",
    "a { display: grid; }",
    "async function f() { await g(); }\nnew asyncPool(1);",
    "navigator.share(d);" }

InitScan ==
  /\ InitWith(CatalogProject, MaxFiles, {DefaultThreshold}, {FALSE})
  /\ tool = "dashboard"

ScanCSS ==
  /\ tool = "dashboard" /\ Len(scans) < MaxScans
  /\ \E text \in ScanTexts :
       scans' = Append(scans, [parser |-> "css", text |-> text,
                               usages |-> scanCSS(text, lastIndexOfLiteral(scans))])
  /\ UNCHANGED <<tool, options, project, fileLimit, seen, phase, analysis, result,
               catalog, provider, loads, classifiedWith, builds, baselinerc, editor>>

ScanJS ==
  /\ tool = "dashboard" /\ Len(scans) < MaxScans
  /\ \E text \in ScanTexts :
       scans' = Append(scans, [parser |-> "js", text |-> text,
                               usages |-> scanJS(text, lastIndexOfLiteral(scans))])
  /\ UNCHANGED <<tool, options, project, fileLimit, seen, phase, analysis, result,
               catalog, provider, loads, classifiedWith, builds, baselinerc, editor>>

NextScan == ScanCSS \/ ScanJS

SpecScan == InitScan /\ [][NextScan]_vars

(***************************************************************************)
(* The vite and rollup plugins in watch mode: the bundler builds again     *)
(* with the plugin instance it has.                                        *)
(***************************************************************************)
InitWatch ==
  /\ InitWith(SmallProject, MaxFiles, {DefaultThreshold}, {FALSE})
  /\ tool \in {"vite", "rollup"}

\* A watched file changed after the bundle-end hook: the next build starts.
\* `const analysis = {...}` is evaluated once, by baselinePlugin(options), and
\* no hook assigns its counters again.
WatchRebuild ==
  /\ tool \in {"vite", "rollup"} /\ phase = "done" /\ Len(builds) < MaxBuilds - 1
  /\ builds' = Append(builds, [seen |-> seen, result |-> result])
  /\ phase' = "scan"
  /\ UNCHANGED <<tool, options, project, fileLimit, seen, analysis, result,
               catalog, provider, loads, classifiedWith, scans, baselinerc, editor>>

NextWatch ==
  \/ ViteTransform \/ ViteCloseBundle
  \/ RollupTransform \/ RollupGenerateBundle
  \/ WatchRebuild

SpecWatch == InitWatch /\ [][NextWatch]_vars

(***************************************************************************)
(* Views of the state that the properties below use.                       *)
(***************************************************************************)
Done == phase = "done"
Strict == options.failOnNonBaseline
\* The threshold as the gate of the running tool reads it.
Threshold == IF tool = "cli" THEN parseInt(options.threshold) ELSE options.threshold
Outcome == IF result.failed THEN "fail" ELSE IF result.warned THEN "warn" ELSE "pass"

Triple(b, l, n) == [baseline |-> b, limited |-> l, nonBaseline |-> n]
Zero == Triple(0, 0, 0)
Total(c) == c.baseline + c.limited + c.nonBaseline

\* The running counters of the tool, under one set of names.
Counters ==
  CASE tool = "cli" ->
         Triple(analysis.totalBaseline, analysis.totalLimited, analysis.totalNonBaseline)
    [] tool = "webpack" -> WebpackCount(analysis.features)
    [] tool \in {"vite", "rollup"} ->
         Triple(analysis.baseline, analysis.limited, analysis.nonBaseline)
    [] tool = "dashboard" ->
         Triple(analysis.baselineCSSCount + analysis.baselineJSCount,
                analysis.limitedCSSCount + analysis.limitedJSCount,
                analysis.nonBaselineCSSCount + analysis.nonBaselineJSCount)

\* The counters the tool reported at the end.
Reported == Triple(result.baseline, result.limited, result.nonBaseline)

\* The names the tool lists as features.
FeatureNames ==
  CASE tool = "cli" -> UNION {r.features : r \in BagToSet(analysis.fileResults)}
    [] tool \in {"webpack", "vite", "rollup"} ->
         {f.feature : f \in BagToSet(analysis.features)}
    [] tool = "dashboard" -> {}

\* The object literal catalog of a gate tool.
CatalogOf(t) ==
  CASE t = "cli" -> CliBaselineData
    [] t = "webpack" -> WebpackBaselineData
    [] t \in {"vite", "rollup"} -> BundlerBaselineData

\* The matches of the JS pattern list of a gate tool.
JsMatchesOf(t, text) ==
  CASE t = "cli" -> CliMatches(text)
    [] t = "webpack" -> WebpackMatches(text)
    [] t \in {"vite", "rollup"} -> BundlerMatches(text)

\* Whether the tool scans the file as CSS / as JS under the options.
ScansCss(file) ==
  /\ ~options.jsOnly
  /\ IF tool \in {"cli", "dashboard"} THEN GlobCss(file.name) ELSE cssRegex(file.name)
ScansJs(file) ==
  /\ ~options.cssOnly
  /\ IF tool \in {"cli", "dashboard"} THEN GlobJs(file.name) ELSE jsRegex(file.name)

\* The usages of one file that a gate tool looks up, CSS then JS.
FileLookups(file) ==
  (IF ScansCss(file)
   THEN CssLookups(file.text, PropertyMatches(file.text), CatalogOf(tool).css)
   ELSE <<>>)
  \o (IF ScansJs(file)
      THEN JsLookups(file.text, JsMatchesOf(tool, file.text), CatalogOf(tool).js)
      ELSE <<>>)

\* What one file adds to the counters of a gate tool, from its own scanner.
FileCounters(file) ==
  CASE tool = "cli" ->
         CliFold(InitialAnalysis("cli"),
                 IF GlobCss(file.name) THEN analyzeCSSFile(file) ELSE analyzeJSFile(file))
    [] tool = "webpack" ->
         WebpackCount(SeqToBag(WebpackAssetCss(file) \o WebpackAssetJs(file)))
    [] tool \in {"vite", "rollup"} -> transform(options, InitialAnalysis(tool), file)

AsTriple(c) ==
  IF tool = "cli" THEN Triple(c.totalBaseline, c.totalLimited, c.totalNonBaseline)
  ELSE Triple(c.baseline, c.limited, c.nonBaseline)

\* The pointwise sum, over the files of a bag, of per[file], in a fixed order.
RECURSIVE SumOver(_, _, _)
SumOver(files, bag, per) ==
  IF files = {} THEN Zero
  ELSE LET f == CHOOSE x \in files : TRUE
           rest == SumOver(files \ {f}, bag, per)
       IN Triple(rest.baseline + bag[f] * per[f].baseline,
                 rest.limited + bag[f] * per[f].limited,
                 rest.nonBaseline + bag[f] * per[f].nonBaseline)

SumOfSeen(per) == SumOver(BagToSet(seen), seen, per)

\* The pointwise sum of the counters of the files folded so far.
SeenSum == SumOfSeen([f \in BagToSet(seen) |-> AsTriple(FileCounters(f))])

\* The gate of a tool as a function of the options, the score and the count.
Gate(t, opts, score, nonBaseline) ==
  CASE t = "cli" -> runCheck(opts, score, nonBaseline)
    [] t = "webpack" ->
         [warned |-> FALSE, failed |-> checkThresholds(opts, score, nonBaseline)]
    [] t = "vite" -> closeBundle(opts, score, nonBaseline)
    [] t = "rollup" -> generateBundle(opts, score, nonBaseline)

OptionsFor(t, threshold, strict) ==
  [threshold |-> IF t = "cli" THEN ToString(threshold) ELSE threshold,
   failOnNonBaseline |-> strict, cssOnly |-> FALSE, jsOnly |-> FALSE]

(***************************************************************************)
(* C1.  In the CLI and the three plugins the reported score is 100 when    *)
(* no usage was counted and otherwise 100 * B / (B + L + N) rounded half   *)
(* up, B, L and N being the pointwise sums of the per-file counters.       *)
(***************************************************************************)
C1_ScoreIsRoundHalfUpOfSums ==
  (Done /\ tool \in GateTools) =>
    /\ Reported = SeenSum
    /\ result.score = ExactScore(SeenSum.baseline, SeenSum.limited, SeenSum.nonBaseline)

(***************************************************************************)
(* C2.  With the strict flag off no gate fails: a score below the          *)
(* threshold gives a warning, and non-baseline usages with a score at or   *)
(* above the threshold give a pass.                                        *)
(***************************************************************************)
C2_NonStrictNeverFails ==
  (Done /\ tool \in GateTools /\ ~Strict) =>
    /\ ~result.failed
    /\ result.score < Threshold => Outcome = "warn"
    /\ (result.score >= Threshold /\ result.nonBaseline > 0) => Outcome = "pass"

(***************************************************************************)
(* C3.  With the strict flag on a gate fails exactly when the score is     *)
(* below the threshold or a non-baseline usage was counted; score 95 with  *)
(* one non-baseline usage fails, and score 75 against threshold 80 fails.  *)
(***************************************************************************)
C3_StrictFailsIffBelowOrNonBaseline ==
  (Done /\ tool \in GateTools /\ Strict) =>
    /\ result.failed <=> (result.score < Threshold \/ result.nonBaseline > 0)
    /\ Gate(tool, OptionsFor(tool, 80, TRUE), 95, 1).failed
    /\ Gate(tool, OptionsFor(tool, 80, TRUE), 75, 0).failed

\* A strict run that fails on a non-baseline usage although its score reaches
\* the threshold.
C3_Witness ==
  /\ Done /\ tool \in GateTools /\ Strict
  /\ result.nonBaseline > 0 /\ result.score >= Threshold /\ Threshold > 0
  /\ Outcome = "fail"

(***************************************************************************)
(* C4.  A score at or above the threshold with no non-baseline usage       *)
(* passes, whatever the strict flag and for every threshold in 0..100:     *)
(* nothing is warned and nothing fails.                                    *)
(***************************************************************************)
C4_PassAtOrAboveThreshold ==
  (Done /\ tool \in GateTools) =>
    /\ (result.score >= Threshold /\ result.nonBaseline = 0) => Outcome = "pass"
    /\ \A threshold \in 0..100, strict \in BOOLEAN :
         (result.score >= threshold /\ result.nonBaseline = 0) =>
           LET gate == Gate(tool, OptionsFor(tool, threshold, strict),
                            result.score, result.nonBaseline)
           IN ~gate.warned /\ ~gate.failed

\* A strict run whose score is exactly the threshold, below 100, and passes.
C4_Witness ==
  /\ Done /\ tool \in GateTools /\ Strict
  /\ Total(Reported) > 0 /\ result.nonBaseline = 0
  /\ result.score = Threshold /\ result.score < 100
  /\ Outcome = "pass"

(***************************************************************************)
(* C5.  No JS scan counts the same identifier twice on one line: the       *)
(* usages the editor extracts hold no two with the same line and name, and *)
(* the counters of the CLI and the plugins are those of the usages with    *)
(* the repeats on a line removed.                                          *)
(***************************************************************************)
\* Whether no two usages share line and name.
NoRepeats(usages) ==
  \A i, j \in 1..Len(usages) :
    (usages[i].line = usages[j].line /\ usages[i].api = usages[j].api) => i = j

\* The places of the usages that are the first with their line and name.
FirstOfEach(usages) ==
  {i \in 1..Len(usages) :
     \A j \in 1..(i - 1) :
       ~(usages[j].line = usages[i].line /\ usages[j].feature = usages[i].feature)}

TallyAt(usages, places) ==
  Triple(Cardinality({i \in places : usages[i].status = "baseline"}),
         Cardinality({i \in places : usages[i].status = "limited"}),
         Cardinality({i \in places : usages[i].status \notin {"baseline", "limited"}}))

\* The counters of a file when each (line, name) pair is counted once.
CountedOnce(usages) == TallyAt(usages, FirstOfEach(usages))
DedupedCounters(file) == CountedOnce(Counted(FileLookups(file)))

C5_JsUsagesCountedOncePerLine ==
  /\ \A f \in BagToSet(seen) :
       GlobJs(f.name) => NoRepeats(extractAPIUsage(f.text))
  /\ tool \in GateTools =>
       Counters = SumOfSeen([f \in BagToSet(seen) |-> DedupedCounters(f)])

(***************************************************************************)
(* C6.  When every identifier found in the analysed files is absent from   *)
(* the catalog, the CLI and the dashboard count nothing and report the     *)
(* score 100.                                                              *)
(***************************************************************************)
\* Whether every name the tool extracts from the file is no key of its catalog.
OnlyAbsent(file) ==
  IF tool = "dashboard"
  THEN IF GlobCss(file.name)
       THEN \A i \in DOMAIN extractCSSProperties(file.text) :
              extractCSSProperties(file.text)[i].name \notin DOMAIN MockCatalog.cssFeatures
       ELSE \A i \in DOMAIN extractAPIUsage(file.text) :
              extractAPIUsage(file.text)[i].api \notin DOMAIN MockCatalog.jsFeatures
  ELSE \A i \in DOMAIN FileLookups(file) :
         FileLookups(file)[i].feature
           \notin (DOMAIN CatalogOf(tool).css \cup DOMAIN CatalogOf(tool).js)

C6_UnknownOnlyScores100 ==
  (Done /\ tool \in {"cli", "dashboard"} /\ \A f \in BagToSet(seen) : OnlyAbsent(f)) =>
    /\ Total(Reported) = 0
    /\ result.score = 100

(***************************************************************************)
(* C7.  In the CLI and the plugins a captured name that is no key of the   *)
(* catalog is discarded: it changes no counter and is not listed as a      *)
(* feature.                                                                *)
(***************************************************************************)
\* The counters of a file when only the usages naming a key are kept.
OwnKeyCounters(file) ==
  Tally(SelectSeq(FileLookups(file),
                  LAMBDA u : u.feature \in (DOMAIN CatalogOf(tool).css
                                              \cup DOMAIN CatalogOf(tool).js)))

C7_NonKeysAreDiscarded ==
  tool \in GateTools =>
    /\ Counters = SumOfSeen([f \in BagToSet(seen) |-> OwnKeyCounters(f)])
    /\ FeatureNames \subseteq (DOMAIN CatalogOf(tool).css \cup DOMAIN CatalogOf(tool).js)

(***************************************************************************)
(* C8.  The score of the dashboard is the score of the baseline, limited   *)
(* and non-baseline counters it reports.                                   *)
(***************************************************************************)
C8_DashboardScoreOfItsCounters ==
  (Done /\ tool = "dashboard") =>
    result.score = Score(result.baseline, result.limited, result.nonBaseline)

(***************************************************************************)
(* C9.  The score never falls when the baseline count grows and never      *)
(* rises when the limited or the non-baseline count grows, the step from   *)
(* no usage to one usage included.                                         *)
(***************************************************************************)
C9_ScoreMonotone ==
  (Done /\ tool \in GateTools) =>
    LET b == result.baseline
        l == result.limited
        n == result.nonBaseline
    IN /\ result.score = Score(b, l, n)
       /\ Score(b + 1, l, n) >= result.score
       /\ Score(b, l + 1, n) <= result.score
       /\ Score(b, l, n + 1) <= result.score

\* A run with all three kinds of usage counted whose score moves strictly
\* with one more baseline usage and with one more limited usage.
C9_Witness ==
  /\ Done /\ tool \in GateTools
  /\ result.baseline > 0 /\ result.limited > 0 /\ result.nonBaseline > 0
  /\ Score(result.baseline + 1, result.limited, result.nonBaseline) > result.score
  /\ Score(result.baseline, result.limited + 1, result.nonBaseline) < result.score

(***************************************************************************)
(* C10.  The aggregate counters and the score of the CLI are the pointwise *)
(* sum over the files, whatever the order they were processed in, and      *)
(* aggregating a, b, c gives what aggregating (the aggregate of a, b) and  *)
(* c gives.                                                                *)
(***************************************************************************)
\* The loop of analyze over a list of results, from zero counters.
RECURSIVE CliFoldAll(_, _)
CliFoldAll(a, results) ==
  IF results = <<>> THEN a ELSE CliFoldAll(CliFold(a, Head(results)), Tail(results))

\* The aggregate of a list of results, as a result that can be aggregated again.
AsResult(a) ==
  [file |-> "", language |-> "", baselineCount |-> a.totalBaseline,
   limitedCount |-> a.totalLimited, nonBaselineCount |-> a.totalNonBaseline,
   features |-> {}]
aggregate(results) == AsResult(CliFoldAll(InitialAnalysis("cli"), results))

C10_AggregationIsPointwiseSum ==
  tool = "cli" =>
    /\ Counters = SeenSum
    /\ Done => /\ Reported = SeenSum
               /\ result.score = Score(SeenSum.baseline, SeenSum.limited,
                                       SeenSum.nonBaseline)
    /\ \A a, b, c \in BagToSet(analysis.fileResults) :
         /\ aggregate(<<a, b, c>>) = aggregate(<<aggregate(<<a, b>>), c>>)
         /\ aggregate(<<a, b, c>>) = aggregate(<<a, aggregate(<<b, c>>)>>)
         /\ aggregate(<<a, b>>) = aggregate(<<b, a>>)

\* A finished CLI run over three files with three different results.
C10_Witness ==
  /\ Done /\ tool = "cli"
  /\ \E a, b, c \in BagToSet(analysis.fileResults) :
       /\ a.language = "css" /\ b.language = "css" /\ c.language = "js"
       /\ a.baselineCount # b.baselineCount
       /\ a.nonBaselineCount > 0 /\ c.baselineCount > 1

(***************************************************************************)
(* C11.  The JS scenario: the text with an async function, an await, a     *)
(* fetch and a navigator.share, scanned by an analyser whose catalog has   *)
(* fetch and async as baseline and navigator.share as limited, gives       *)
(* baseline 2, limited 1 and the score 67.                                 *)
(***************************************************************************)
JsScenario == File("m.js", "async function f() { await fetch('/x'); navigator.share({}); }")

CssScenario ==
  File("a.css", ".x { display: flex; container-type: inline-size; unknown-prop: 1; }")

\* The names of a list of extracted properties, in order.
NamesOf(properties) == [i \in 1..Len(properties) |-> properties[i].name]

C12_CssScenarioCounts ==
  (seen = SetToBag({CssScenario}) /\ ~options.jsOnly) =>
    /\ NamesOf(extractCSSProperties(CssScenario.text))
         = <<"display", "container-type", "unknown-prop">>
    /\ Counters = Triple(1, 1, 0)
    /\ (Done /\ tool \in GateTools) =>
         (Reported = Triple(1, 1, 0) /\ result.score = 50)

\* A finished CLI run over the scenario file alone.
C12_Witness ==
  /\ Done /\ tool = "cli" /\ seen = SetToBag({CssScenario})
  /\ Reported = Triple(1, 1, 0) /\ result.score = 50


\* The source of the provider's latest load
LatestLoad == loads[Len(loads)]

\* A refresh whose package was found and whose cache was written
Refreshing == provider.refresh \in {"awaiting", "resolved"} /\ ~provider.cacheFailed

\* C13: once BaselineDataProvider.refresh has loaded a package, and at every
\* point a reader can observe from then on, the CSS and JS maps contain exactly
\* the entries derived from that package: no key of an earlier load remains.
C13_RefreshReplacesCatalog ==
  Refreshing => catalog = parseWebFeatures(EmptyMaps, LatestLoad)

\* C14: every file classified by one getProjectStats pass of the dashboard is
\* classified against the same catalog contents, whatever baseline.refreshData
\* does while the pass is in flight.
C14_OneCatalogPerPass == Cardinality(classifiedWith) <= 1

\* Every key createMockData sets
MockCssKeys == DOMAIN MockCatalog.cssFeatures
MockJsKeys == DOMAIN MockCatalog.jsFeatures

\* C15: a failed catalog load never propagates.  From the moment the constructor
\* of BaselineDataProvider has returned, its loadData promise is pending or
\* resolved, never rejected, even when writing the cache file failed, and every
\* built-in (mock) key is found by getCSSFeature / getJSFeature.
C15_LoadFailureIsRecovered ==
  provider.loadData # "none" =>
    /\ provider.loadData \in {"awaiting", "resolved"}
    /\ \A key \in MockCssKeys : getCSSFeature(catalog, key) # NoFeature
    /\ \A key \in MockJsKeys : getJSFeature(catalog, key) # NoFeature

\* The cache write of the constructor's load failed and loadData has settled.
C15_Witness ==
  /\ provider.loadData = "resolved"
  /\ loads = <<MockSource, MockSource>>
  /\ getCSSFeature(catalog, "display") # NoFeature

SubApiUsages(text) ==
  Concat([i \in 1..Len(ParserPatterns) |->
            IF ParserPatterns[i].type \in {"navigator", "document"}
            THEN UsagesOf(text, ExecAll(ParserPatterns[i].regex, text, 1),
                          ParserPatterns[i].type)
            ELSE <<>>])

IsDottedPath(api) == StartsWithAt(api, 1, "navigator.") \/ StartsWithAt(api, 1, "document.")

\* C17: every usage pushed by the navigator and document passes of
\* JSParser.extractAPIUsage carries the full dotted identifier (navigator.share,
\* document.startViewTransition, ...), never the bare member name.
C17_DottedPathsKept ==
  \A i \in DOMAIN scans :
    scans[i].parser = "js" =>
      \A k \in DOMAIN SubApiUsages(scans[i].text) :
        IsDottedPath(SubApiUsages(scans[i].text)[k].api)

\* Where the async-function pass and the await pass of the parser match
IndexesOf(ms) == {ms[i].index : i \in DOMAIN ms}
AsyncMatchesAt(text) ==
  IndexesOf(ExecAll(asyncFunctionRegex, text, 1))
    \cup IndexesOf(ExecAll(awaitRegex, text, 1))

AsyncUsagesOn(usages, line) ==
  Len(SelectSeq(usages, LAMBDA u : u.api = "async" /\ u.line = line))

\* C18: every match of the async-function pass and of the await pass yields the
\* identifier async, an `async function` and an `await` on one line make exactly
\* one usage, and no usage other than those of the two passes is named async.
C18_OnlyAsyncFormsCollapse ==
  \A i \in DOMAIN scans :
    scans[i].parser = "js" =>
      /\ \A index \in AsyncMatchesAt(scans[i].text) :
           AsyncUsagesOn(scans[i].usages, LineOf(scans[i].text, index)) = 1
      /\ \A k \in DOMAIN scans[i].usages :
           scans[i].usages[k].api = "async"
             => scans[i].usages[k].index \in AsyncMatchesAt(scans[i].text)

\* C19: the folds of the vite and rollup transform hooks and of the CLI's file
\* loop are sequential.  After any number of folds, in any order, each counter is
\* the sum of the per-module counts of the modules folded so far, the plugins
\* hold one pushed feature per counted usage, and the end hook reports that sum.
C19_FoldsAreSequential ==
  tool \in {"vite", "rollup", "cli"} =>
    /\ Counters = SeenSum
    /\ tool # "cli" => BagCardinality(analysis.features) = Total(SeenSum)
    /\ Done => Reported = SeenSum

\* A finished vite build of three modules, two of them different, all counted.
C19_Witness ==
  /\ Done /\ tool = "vite" /\ BagCardinality(seen) = 3
  /\ Cardinality(BagToSet(seen)) >= 2
  /\ \A f \in BagToSet(seen) : Total(AsTriple(FileCounters(f))) >= 1
  /\ Reported = SeenSum /\ Total(Reported) >= 4

\* The calls of Map.prototype.set a load makes, in the order it makes them
Insertion(map, key, feature) == [map |-> map, key |-> key, feature |-> feature]

MockInsertions ==
  Concat([i \in 1..Len(mockCSSFeatures) |->
            [j \in 1..Len(mockCSSFeatures[i].properties) |->
               Insertion("css", mockCSSFeatures[i].properties[j], mockCSSFeatures[i])]])
  \o Concat([i \in 1..Len(mockJSFeatures) |->
               <<Insertion("js", mockJSFeatures[i].api, mockJSFeatures[i])>>
               \o [j \in 1..Len(mockJSFeatures[i].methods) |->
                     Insertion("js", mockJSFeatures[i].methods[j], mockJSFeatures[i])]])

FeatureInsertions(feature) ==
  (IF feature.css \/ feature.properties # None
   THEN [j \in 1..Len(cssFeatureOf(feature).properties) |->
           Insertion("css", cssFeatureOf(feature).properties[j], cssFeatureOf(feature))]
   ELSE <<>>)
  \o (IF feature.javascript \/ feature.api # ""
      THEN <<Insertion("js", jsFeatureOf(feature).api, jsFeatureOf(feature))>>
      ELSE <<>>)

InsertionsOf(load) ==
  IF load.source = "mock" THEN MockInsertions
  ELSE IF load.features = None THEN <<>>
  ELSE Concat([i \in 1..Len(load.features[1]) |-> FeatureInsertions(load.features[1][i])])

\* Every insertion the provider has made so far
Inserted == Concat([i \in 1..Len(loads) |-> InsertionsOf(loads[i])])

WritesTo(inserted, map, key) ==
  {i \in DOMAIN inserted : inserted[i].map = map /\ inserted[i].key = key}
LastWriteTo(inserted, map, key) == inserted[SetMax(WritesTo(inserted, map, key))].feature
KeysWritten(inserted, map) ==
  {inserted[i].key : i \in {k \in DOMAIN inserted : inserted[k].map = map}}

LastWritesIn(inserted) ==
  /\ DOMAIN catalog.cssFeatures = KeysWritten(inserted, "css")
  /\ DOMAIN catalog.jsFeatures = KeysWritten(inserted, "js")
  /\ \A key \in DOMAIN catalog.cssFeatures :
       getCSSFeature(catalog, key) = LastWriteTo(inserted, "css", key)
  /\ \A key \in DOMAIN catalog.jsFeatures :
       getJSFeature(catalog, key) = LastWriteTo(inserted, "js", key)

\* C20: every key of the active catalog maps to one feature record, and for a
\* key that the loader inserted for several records that record is the one of
\* the last insertion, in insertion order.
C20_LastWriteWins == LastWritesIn(Inserted)

\* The mock data and then a package that sets gap for two features are loaded:
\* observe was set for three observers and gap for three features.
C20_Witness ==
  /\ provider.refresh = "resolved"
  /\ Cardinality(WritesTo(Inserted, "js", "observe")) >= 3
  /\ Cardinality(WritesTo(Inserted, "css", "gap")) >= 3
  /\ getJSFeature(catalog, "observe").id = "mutation-observer"
  /\ getCSSFeature(catalog, "gap").id = "gutters"

\* Every key a CSS record / a JS record is to be found under
CssKeysOf(feature) == {feature.properties[j] : j \in DOMAIN feature.properties}
JsKeysOf(feature) == {feature.api} \cup {feature.methods[j] : j \in DOMAIN feature.methods}

\* C21: after any load, every property name of every loaded CSS record is a key
\* of the CSS map, and the api name and every method name of every loaded JS
\* record is a key of the JS map.
C21_EveryNameIsAKey ==
  /\ \A key \in DOMAIN catalog.cssFeatures :
       CssKeysOf(catalog.cssFeatures[key]) \subseteq DOMAIN catalog.cssFeatures
  /\ \A key \in DOMAIN catalog.jsFeatures :
       JsKeysOf(catalog.jsFeatures[key]) \subseteq DOMAIN catalog.jsFeatures

(***************************************************************************)
(* The editor's decorators.                                                *)
(***************************************************************************)
\* switch (feature.status) { case 'baseline': ... case 'limited': ...
\*                           case 'not-baseline': ... }: the lines decorated
DecorationsOf(lines, features) ==
  [baseline |-> SelectSeq(lines, LAMBDA u : features[u.at].status = "baseline"),
   limited |-> SelectSeq(lines, LAMBDA u : features[u.at].status = "limited"),
   nonBaseline |-> SelectSeq(lines, LAMBDA u : features[u.at].status = "not-baseline")]

\* CSSDecorator.decorateDocument: for (const prop of properties) {
\*   const feature = getCSSFeature(prop.name); if (!feature) continue; ... }
cssDecorations(properties, maps) ==
  DecorationsOf(
    SelectSeq([i \in 1..Len(properties) |-> [at |-> i, line |-> properties[i].line]],
              LAMBDA u : getCSSFeature(maps, properties[u.at].name) # NoFeature),
    [i \in 1..Len(properties) |-> getCSSFeature(maps, properties[i].name)])

\* How many properties of a text name a key of a catalog
CssFound(text, keys) ==
  Len(SelectSeq(extractCSSProperties(text), LAMBDA p : p.name \in keys))

\* What the dashboard pass adds for one CSS file
DashboardCssOf(file, maps) ==
  DashboardCSS(InitialAnalysis("dashboard"), extractCSSProperties(file.text), maps)

\* C22: not-baseline and nonBaseline are one state.  For every CSS file scanned,
\* the three counters of the file add up to the number of its usages found in
\* the catalog, in the dashboard and in the CLI, and the CSS decorator puts a
\* usage in its not-baseline set exactly when the dashboard counts it so.
C22_ThirdStateIsOne ==
  \A f \in BagToSet(seen) :
    GlobCss(f.name) =>
      /\ tool = "dashboard" =>
           /\ DashboardCssOf(f, catalog).baselineCSSCount
                + DashboardCssOf(f, catalog).limitedCSSCount
                + DashboardCssOf(f, catalog).nonBaselineCSSCount
                = CssFound(f.text, DOMAIN catalog.cssFeatures)
           /\ Len(cssDecorations(extractCSSProperties(f.text), catalog).nonBaseline)
                = DashboardCssOf(f, catalog).nonBaselineCSSCount
      /\ (tool = "cli" /\ ~options.jsOnly) =>
           analyzeCSSFile(f).baselineCount + analyzeCSSFile(f).limitedCount
             + analyzeCSSFile(f).nonBaselineCount
             = CssFound(f.text, DOMAIN CliBaselineData.css)

\* The dashboard and decorator half of C22, alone
DashboardThirdState ==
  \A f \in BagToSet(seen) :
    (GlobCss(f.name) /\ tool = "dashboard") =>
      /\ DashboardCssOf(f, catalog).baselineCSSCount
           + DashboardCssOf(f, catalog).limitedCSSCount
           + DashboardCssOf(f, catalog).nonBaselineCSSCount
           = CssFound(f.text, DOMAIN catalog.cssFeatures)
      /\ Len(cssDecorations(extractCSSProperties(f.text), catalog).nonBaseline)
           = DashboardCssOf(f, catalog).nonBaselineCSSCount
      /\ Len(cssDecorations(extractCSSProperties(f.text), catalog).baseline)
           = DashboardCssOf(f, catalog).baselineCSSCount

\* C23: in the CLI and in the webpack, vite and rollup plugins the nonBaseline
\* counter is 0 in every state, so a run that fails has a score below its
\* threshold.
C23_NonBaselineStaysZero ==
  tool \in GateTools =>
    /\ Counters.nonBaseline = 0
    /\ (Done /\ result.failed) => result.score < Threshold

\* The modules transformed by finished build k, and by the build under way
SeenBefore(k) == IF k = 1 THEN EmptyBag ELSE builds[k - 1].seen
ModulesOfBuild(k) == builds[k].seen (-) SeenBefore(k)
ModulesOfThisBuild == seen (-) SeenBefore(Len(builds) + 1)

\* C24: a build of a vite or rollup plugin instance covers the modules of that
\* build only.  When a rebuild has transformed the same modules as an earlier
\* build of the instance, its bundle-end hook reports the same counters and the
\* same score as that build did.
C24_RebuildStartsFromZero ==
  (Done /\ tool \in {"vite", "rollup"}) =>
    \A k \in DOMAIN builds :
      ModulesOfThisBuild = ModulesOfBuild(k) =>
        /\ Reported = Triple(builds[k].result.baseline, builds[k].result.limited,
                             builds[k].result.nonBaseline)
        /\ result.score = builds[k].result.score

\* C25: the gate of `baseline check` depends on the command-line options only.
\* Whatever a well-formed .baselinerc.json holds, and with no such file, a run
\* with the same options over the same files has the same counters, the same
\* score, the same warning and the same exit outcome.
C25_ConfigFileHasNoInfluence ==
  tool = "cli" =>
    /\ Counters = SeenSum
    /\ Done => \A rc \in ConfigFiles : result = CliResultUnder(rc, result.score)

\* The file says failOnNonBaseline and threshold 100, the command line does not
\* ask for a failure: the run warns and does not fail.
C25_Witness ==
  /\ Done /\ tool = "cli"
  /\ baselinerc = [threshold |-> Some(100), failOnNonBaseline |-> Some(TRUE)]
  /\ ~options.failOnNonBaseline /\ options.threshold = "80"
  /\ result.score = 50 /\ result.warned /\ ~result.failed

\* JSDecorator.decorateDocument: the first feature found on each line gets the
\* badge (if (!lineFeatures.has(usage.line)) lineFeatures.set(usage.line, feature))
jsDecorations(apiUsages, maps) ==
  DecorationsOf(
    FirstOnLine(
      SelectSeq([i \in 1..Len(apiUsages) |-> [at |-> i, line |-> apiUsages[i].line]],
                LAMBDA u : getJSFeature(maps, apiUsages[u.at].api) # NoFeature),
      {}),
    [i \in 1..Len(apiUsages) |-> getJSFeature(maps, apiUsages[i].api)])

\* What the dashboard pass adds for a JS document with these usages
DashboardJsOf(apiUsages, maps) ==
  DashboardJS(InitialAnalysis("dashboard"), apiUsages, maps)

\* C26: for every JS document, the dashboard counts as many usages under each
\* status as JSDecorator.decorateDocument shows badges of that status, also
\* when the first usage of a line is absent from the catalog and a later usage
\* of the line is present.
C26_DashboardCountsTheBadges ==
  \A i \in DOMAIN scans :
    scans[i].parser = "js" =>
      /\ DashboardJsOf(scans[i].usages, catalog).baselineJSCount
           = Len(jsDecorations(scans[i].usages, catalog).baseline)
      /\ DashboardJsOf(scans[i].usages, catalog).limitedJSCount
           = Len(jsDecorations(scans[i].usages, catalog).limited)
      /\ DashboardJsOf(scans[i].usages, catalog).nonBaselineJSCount
           = Len(jsDecorations(scans[i].usages, catalog).nonBaseline)

\* C29: a refresh that rejects (the package cannot be loaded, or the cache
\* file cannot be written) leaves the CSS and JS maps as they were before the
\* call.
C29_FailedRefreshKeepsCatalog ==
  provider.refresh = "rejected" => catalog = provider.before

\* C30: every run of baseline.refreshData leaves the 'refreshing...' state:
\* once the run has ended, also with a rejected data refresh, the status bar
\* no longer reads '$(sync~spin) Baseline (refreshing...)'.
C30_RefreshingEnds ==
  provider.refresh = "rejected" => editor.statusBar # "refreshing"

\* Every dashboard pass started so far has posted its update
AllPosted == \A i \in DOMAIN editor.passes : editor.passes[i].step = "posted"

\* C27: when overlapping dashboard refreshes have all finished, the update
\* the webview received last comes from the refresh that started last, so the
\* dashboard does not end up showing stats older than the latest request.
C27_LastStartedIsShown ==
  (AllPosted /\ editor.passes # <<>>) =>
     /\ editor.shown = Len(editor.passes)
     /\ editor.passes[editor.shown].read >= editor.passes[Len(editor.passes)].read

\* C28: edits of the active document are debounced.  At most one
\* re-decoration timer is pending; the timer callback (decorateEditor plus
\* dashboardPanel.refresh) never runs less than DebounceMs after a change, so
\* never between two changes closer than that; and once no timer is pending
\* the callback has run exactly once since the last change.
C28_EditsAreDebounced ==
  /\ Cardinality(editor.timers) <= 1
  /\ editor.runs > 0 => editor.sinceChange >= DebounceMs
  /\ (editor.edits > 0 /\ editor.timers = {}) => editor.runs = 1
  /\ editor.runs <= 1

\* Two changes in one burst, the view shown before them and no refresh
\* message: the burst has ended with one callback, which started the only
\* pass besides the initial one.
C28_Witness ==
  /\ editor.edits = 2 /\ editor.timers = {} /\ editor.runs = 1
  /\ editor.handles = 2 /\ editor.view /\ editor.messages = 0
  /\ Len(editor.passes) = 2

=============================================================================
